---- MODULE Spec2Model ----
(***************************************************************************)
(* A model of the tree-walking Lox interpreter of rslox: the resolver      *)
(* (src/src/lox/resolver.rs), the arena of scopes (src/src/lox/env.rs) and *)
(* the evaluator (src/src/lox/interpreter.rs).                             *)
(*                                                                         *)
(* The evaluator is a recursive walk of the AST. Here it is a machine     *)
(* with an explicit stack of frames, one frame per active handler call:    *)
(* a frame's node says which handler it is, its pc how far the handler    *)
(* has come, and res carries what the last finished call returned.        *)
(***************************************************************************)
EXTENDS Integers, Sequences, FiniteSets, TLC

\* The largest number the input literal $N of a program is drawn from.
MaxInput == 3

\* Option::None of an Option<usize> (EnvNode.parent, depth, closure).
None == -1

(***************************************************************************)
(* Runtime values: LiteralExpr. One record shape for every variant:       *)
(*   t  the variant: Nil, Boolean, Number, String, User, Native, Class,   *)
(*      Instance (the last four are LiteralExpr::Call(Callable::..) and   *)
(*      LiteralExpr::Instance)                                             *)
(*   n  Boolean: 0/1; Number: numerator; User: the Function node;         *)
(*      Class, Instance: the Class node; Native: the arity                 *)
(*   d  Number: denominator (> 0, the fraction is reduced)                *)
(*   s  String: the text                                                  *)
(*   c  User: FunStmt.closure; Class, Instance: the closure of the        *)
(*      methods of the ClassDec                                            *)
(*   f  Instance: ClassInstance.fields                                    *)
(***************************************************************************)
EmptyMap == [x \in {} |-> 0]

Insert(m, key, v) == [x \in (DOMAIN m) \cup {key} |-> IF x = key THEN v ELSE m[x]]

Val(t, n, d, s, c, f) == [t |-> t, n |-> n, d |-> d, s |-> s, c |-> c, f |-> f]

NilV == Val("Nil", 0, 1, "", None, EmptyMap)

BoolV(b) == Val("Boolean", IF b THEN 1 ELSE 0, 1, "", None, EmptyMap)

RECURSIVE Gcd(_, _)
Gcd(a, b) == IF b = 0 THEN a ELSE Gcd(b, a % b)

Abs(a) == IF a < 0 THEN -a ELSE a

\* A Number is held exactly, as a reduced fraction; the rounding of f64 is not
\* modelled (the inputs are small whole numbers).
Frac(n, d) ==
  LET g == Gcd(Abs(n), Abs(d))
      sgn == IF d < 0 THEN -1 ELSE 1
  IN Val("Number", (sgn * n) \div g, (sgn * d) \div g, "", None, EmptyMap)

NumV(n) == Val("Number", n, 1, "", None, EmptyMap)

StrV(s) == Val("String", 0, 1, s, None, EmptyMap)

UserV(fn, closure) == Val("User", fn, 1, "", closure, EmptyMap)

NativeV(arity) == Val("Native", arity, 1, "", None, EmptyMap)

ClassV(cls, closure) == Val("Class", cls, 1, "", closure, EmptyMap)

InstanceV(cls, closure, fields) == Val("Instance", cls, 1, "", closure, fields)

(***************************************************************************)
(* AST nodes: Stmt and Expr. A program is a table of nodes, node 1 the    *)
(* list of top-level statements; a node names its children by index, and  *)
(* the indices follow the source text: a statement comes before its       *)
(* parts and before the statements after it; an operator, a call or a     *)
(* property access comes after its left operand.                          *)
(*   Program(kids)             Block(kids)            Class(name, kids)   *)
(*   Expression(a) Print(a)    Var(name, a)           Return(a)           *)
(*   If(a, b, c)               While(a, b)            Function(name, params, a) *)
(*   Literal(lit)  VarExpr(name)  Assign(name, a)     Grouping(a)         *)
(*   Unary(name, a) Binary(name, a, b) Logical(name, a, b)                *)
(*   Call(a, kids) Get(name, a) Set(name, a, b)       This                *)
(*   Super(name)                                                           *)
(* An absent initializer, else branch or return value is the Nil literal, *)
(* as the parser builds it. A Literal named "N" is the program's input.   *)
(* A Class node's a is the VarExpr of its superclass, 0 when it has none  *)
(* (ClassStmt::superclass). A Return node is named "value" when the        *)
(* source text has an expression after return; ReturnStmt does not keep    *)
(* this, and only the properties read it.                                  *)
(***************************************************************************)
Nd(k, name, a, b, c, kids, params, lit, line) ==
  [k |-> k, name |-> name, a |-> a, b |-> b, c |-> c, kids |-> kids,
   params |-> params, lit |-> lit, line |-> line]

(***************************************************************************)
(* Results: Result<LiteralExpr, LoxError> and Result<ExecResult, LoxError>.*)
(* kind is Val (an expression's value), Normal or Return (ExecResult),    *)
(* Err (a RuntimeError, with its line), Panic (unwrap of None), or Empty. *)
(***************************************************************************)
Res(kind, val, err, line) == [kind |-> kind, val |-> val, err |-> err, line |-> line]

Empty == Res("Empty", NilV, "", 0)

Ok(v) == Res("Val", v, "", 0)

Normal == Res("Normal", NilV, "", 0)

Return(v) == Res("Return", v, "", 0)

Err(e, line) == Res("Err", NilV, e, line)

Panic == Res("Panic", NilV, "unwrap", 0)

(***************************************************************************)
(* The arena: Environment { nodes, curr_node } of EnvNode { values,       *)
(* parent }. Scope id i is nodes[i + 1]. origin is not in the code: it    *)
(* records the AST node (Program, Block, Function or Class) whose         *)
(* execution allocated the scope.                                         *)
(***************************************************************************)
EnvNode(values, parent, origin) == [values |-> values, parent |-> parent, origin |-> origin]

At(e, id) == e.nodes[id + 1]

\* A define that writes into the global scope.
Define_inGlobals(e, name, value) ==
  [e EXCEPT !.nodes[1].values = Insert(@, name, value)]

Define(e, name, value) ==
  [e EXCEPT !.nodes[e.curr_node + 1].values = Insert(@, name, value)]

Get(e, name, line) ==
  IF name \in DOMAIN At(e, 0).values
    THEN Ok(At(e, 0).values[name])
    ELSE Err("UndefinedVariable", line)

RECURSIVE Walk(_, _, _)
Walk(e, curr, distance) ==
  IF distance = 0 \/ curr = None
    THEN curr
    ELSE Walk(e, At(e, curr).parent, distance - 1)

\* An ancestor that walks one parent link too many.
Ancestor_oneTooFar(e, distance) == Walk(e, e.curr_node, distance + 1)

\* None stands for the panic of curr.unwrap().
Ancestor(e, distance) == Walk(e, e.curr_node, distance)

GetAt(e, at, name, line) ==
  LET id == Ancestor(e, at)
  IN IF id = None THEN Panic
     ELSE IF name \in DOMAIN At(e, id).values
       THEN Ok(At(e, id).values[name])
       ELSE Err("UndefinedVariable", line)

\* assign: [env, res]
Assign(e, name, value, line) ==
  IF name \in DOMAIN At(e, 0).values
    THEN [env |-> [e EXCEPT !.nodes[1].values = Insert(@, name, value)], res |-> Ok(value)]
    ELSE [env |-> e, res |-> Err("UndefinedVariable", line)]

\* Variants of the operations below, each wrong in one respect; a property that
\* depends on an operation has to tell it from its variant.
\* An assign_at that writes into a copy and leaves the arena as it was.
AssignAt_snapshot(e, at, name, value) ==
  [env |-> e, res |-> IF Ancestor(e, at) = None THEN Panic ELSE Ok(value)]

AssignAt(e, at, name, value) ==
  LET id == Ancestor(e, at)
  IN IF id = None THEN [env |-> e, res |-> Panic]
     ELSE [env |-> [e EXCEPT !.nodes[id + 1].values = Insert(@, name, value)],
           res |-> Ok(value)]

\* A push_closure that links the new scope to itself.
PushClosure_selfParent(e, bindings, parent, origin) ==
  [nodes |-> Append(e.nodes, EnvNode(bindings, Len(e.nodes), origin)),
   curr_node |-> Len(e.nodes)]

PushClosure(e, bindings, parent, origin) ==
  [nodes |-> Append(e.nodes, EnvNode(bindings, parent, origin)),
   curr_node |-> Len(e.nodes)]

PushNode(e, origin) ==
  [nodes |-> Append(e.nodes, EnvNode(EmptyMap, e.curr_node, origin)),
   curr_node |-> Len(e.nodes)]

\* A pop_node that returns to the global scope.
PopNode_toGlobals(e) == [e EXCEPT !.curr_node = 0]

\* A pop_node that frees the scope it leaves.
PopNode_truncate(e) ==
  [nodes |-> SubSeq(e.nodes, 1, Len(e.nodes) - 1),
   curr_node |-> IF At(e, e.curr_node).parent # None
                   THEN At(e, e.curr_node).parent
                   ELSE 0]

PopNode(e) ==
  [e EXCEPT !.curr_node = IF At(e, e.curr_node).parent # None
                            THEN At(e, e.curr_node).parent
                            ELSE 0]

(***************************************************************************)
(* The evaluator's pure parts.                                            *)
(***************************************************************************)
\* An is_truthy that holds every value for true.
IsTruthy_always(lit) == TRUE

IsTruthy(lit) ==
  CASE lit.t = "Boolean" -> lit.n = 1
    [] lit.t = "Number" -> lit.n # 0
    [] lit.t = "String" -> lit.s # ""
    [] lit.t = "Nil" -> FALSE
    [] lit.t \in {"User", "Native", "Class"} -> TRUE
    [] lit.t = "Instance" -> TRUE

\* PartialEq of LiteralExpr is derived, except that two NativeFn are equal when
\* their arities are.
IsEqual(l, r) ==
  CASE l.t = "Nil" /\ r.t = "Nil" -> TRUE
    [] l.t = "Nil" -> FALSE
    [] l.t = "String" /\ r.t = "String" -> l.s = r.s
    [] OTHER -> l = r

\* Display of an f64 holding a whole number.
FmtNum(v) == CASE v.d = 1 -> ToString(v.n)

NumAdd(l, r) == Frac(l.n * r.d + r.n * l.d, l.d * r.d)

NumSub(l, r) == Frac(l.n * r.d - r.n * l.d, l.d * r.d)

NumMul(l, r) == Frac(l.n * r.n, l.d * r.d)

NumDiv(l, r) == Frac(l.n * r.d, l.d * r.n)

NumLess(l, r) == l.n * r.d < r.n * l.d

\* binary_expr, once both operands are evaluated. op is the operator's TokenType.
BinaryOp(op, l, r, line) ==
  IF op = "Plus"
    THEN CASE l.t = "String" /\ r.t = "String" -> Ok(StrV(l.s \o r.s))
           [] l.t = "String" /\ r.t = "Number" -> Ok(StrV(l.s \o FmtNum(r)))
           [] l.t = "Number" /\ r.t = "Number" -> Ok(NumAdd(l, r))
           [] OTHER -> Err("InvalidBinaryOperands", line)
    ELSE IF l.t # "Number" THEN Err("NumberExpected", line)
    ELSE IF r.t \notin {"Number", "String"} THEN Err("NumberExpected", line)
    ELSE LET right_num == IF r.t = "String" THEN NumV(Len(r.s)) ELSE r
         IN CASE op = "Minus" -> Ok(NumSub(l, right_num))
              [] op = "Slash" -> IF right_num.n = 0
                                   THEN Err("DivisionByZero", line)
                                   ELSE Ok(NumDiv(l, right_num))
              [] op = "Star" -> Ok(NumMul(l, right_num))
              [] op = "Greater" -> Ok(BoolV(NumLess(right_num, l)))
              [] op = "GreaterEqual" -> Ok(BoolV(~NumLess(l, right_num)))
              [] op = "Less" -> Ok(BoolV(NumLess(l, right_num)))
              [] op = "LessEqual" -> Ok(BoolV(~NumLess(right_num, l)))
              [] op = "BangEqual" -> Ok(BoolV(~IsEqual(l, r)))
              [] op = "EqualEqual" -> Ok(BoolV(IsEqual(l, r)))
              [] OTHER -> Ok(NilV)

\* unary_expr, once the operand is evaluated.
UnaryOp(op, right, line) ==
  CASE op = "Minus" /\ right.t = "Number" -> Ok(Frac(-right.n, right.d))
    [] op = "Minus" -> Err("NumberExpected", line)
    [] op = "Bang" -> Ok(BoolV(~IsTruthy(right)))
    [] OTHER -> Ok(NilV)

(***************************************************************************)
(* The resolver: Resolver { scopes, function, class } and the depths it   *)
(* writes into the Var, Assign and This nodes. st is                      *)
(*   scopes    Vec<HashMap<String, bool>>                                 *)
(*   depth     node -> the depth written into it (None when left alone)   *)
(*   err, line the ParseError returned, "" while there is none            *)
(*   function  FunctionType, class: ClassType                             *)
(* Every rs_ function returns at the first error (the ? operator).        *)
(***************************************************************************)
IsNilLiteral(nd) == nd.k = "Literal" /\ nd.name # "N" /\ nd.lit = NilV

\* LiteralExpr::Nil.into() as a Stmt: Stmt::Expression(Expr::Literal(Nil))
IsNilStmt(P, nd) == nd.k = "Expression" /\ IsNilLiteral(P[nd.a])

RsFail(st, e, line) == [st EXCEPT !.err = e, !.line = line]

BeginScope(st) == [st EXCEPT !.scopes = Append(@, EmptyMap)]

EndScope(st) == [st EXCEPT !.scopes = SubSeq(@, 1, Len(@) - 1)]

\* A declare that never looks for an earlier declaration.
Declare_unchecked(st, name, line) ==
  IF st.err # "" \/ st.scopes = <<>> THEN st
  ELSE [st EXCEPT !.scopes[Len(st.scopes)] = Insert(@, name, FALSE)]

Declare(st, name, line) ==
  IF st.err # "" \/ st.scopes = <<>> THEN st
  ELSE IF name \in DOMAIN st.scopes[Len(st.scopes)]
    THEN RsFail(st, "VariableAlreadyDefined", line)
    ELSE [st EXCEPT !.scopes[Len(st.scopes)] = Insert(@, name, FALSE)]

RsDefine(st, name) ==
  IF st.err # "" \/ st.scopes = <<>> THEN st
  ELSE [st EXCEPT !.scopes[Len(st.scopes)] = Insert(@, name, TRUE)]

\* The first i, counted from the innermost scope, whose scope holds name.
RECURSIVE FindLocal(_, _, _)
FindLocal(scopes, name, i) ==
  IF i >= Len(scopes) THEN None
  ELSE IF name \in DOMAIN scopes[Len(scopes) - i] THEN i
  ELSE FindLocal(scopes, name, i + 1)

ResolveLocal(st, n, name) ==
  IF st.err # "" THEN st
  ELSE LET i == FindLocal(st.scopes, name, 0)
       IN IF i = None THEN st ELSE [st EXCEPT !.depth[n] = i]

RECURSIVE RsExpression(_, _, _)
RECURSIVE RsExprs(_, _, _, _)
RECURSIVE Resolve(_, _, _)
RECURSIVE ResolveAll(_, _, _, _)
RECURSIVE RsFunction(_, _, _, _)
RECURSIVE RsMethods(_, _, _, _)

RsVarExpr(P, n, st) ==
  LET nd == P[n]
      top == st.scopes[Len(st.scopes)]
  IN IF st.scopes # <<>> /\ nd.name \in DOMAIN top /\ ~top[nd.name]
       THEN RsFail(st, "SelfReferencingInitializer", nd.line)
       ELSE ResolveLocal(st, n, nd.name)

RsThisExpr(P, n, st) ==
  IF st.class = "None"
    THEN RsFail(st, "OutsideThis", P[n].line)
    ELSE ResolveLocal(st, n, "this")

\* A super expression, after the specification: an error outside a class and
\* in a class without superclass; else the depth of the scope that holds super.
RsSuperExpr(P, n, st) ==
  IF st.class = "None"
    THEN RsFail(st, "SuperOutsideClass", P[n].line)
  ELSE IF st.class # "Subclass"
    THEN RsFail(st, "SuperWithoutSuperclass", P[n].line)
  ELSE ResolveLocal(st, n, "super")

RsExpression(P, n, st) ==
  LET nd == P[n]
  IN IF st.err # "" THEN st
     ELSE CASE nd.k = "Assign" -> ResolveLocal(RsExpression(P, nd.a, st), n, nd.name)
            [] nd.k = "VarExpr" -> RsVarExpr(P, n, st)
            [] nd.k \in {"Grouping", "Unary", "Get"} -> RsExpression(P, nd.a, st)
            [] nd.k \in {"Binary", "Logical", "Set"} ->
                 RsExpression(P, nd.b, RsExpression(P, nd.a, st))
            [] nd.k = "Call" -> RsExprs(P, nd.kids, 1, RsExpression(P, nd.a, st))
            [] nd.k = "This" -> RsThisExpr(P, n, st)
            [] nd.k = "Super" -> RsSuperExpr(P, n, st)
            [] nd.k = "Literal" -> st

RsExprs(P, args, i, st) ==
  IF st.err # "" \/ i > Len(args) THEN st
  ELSE RsExprs(P, args, i + 1, RsExpression(P, args[i], st))

RECURSIVE DeclareParams(_, _, _, _)
DeclareParams(st, params, i, line) ==
  IF st.err # "" \/ i > Len(params) THEN st
  ELSE DeclareParams(RsDefine(Declare(st, params[i], line), params[i]), params, i + 1, line)

\* An rs_function that leaves the function type of the body in place.
RsFunction_noRestore(P, n, type, st) ==
  LET nd == P[n]
      s1 == BeginScope([st EXCEPT !.function = type])
      s2 == DeclareParams(s1, nd.params, 1, nd.line)
      s3 == Resolve(P, nd.a, s2)
  IN IF s3.err # "" THEN s3 ELSE EndScope(s3)

RsFunction(P, n, type, st) ==
  LET nd == P[n]
      s1 == BeginScope([st EXCEPT !.function = type])
      s2 == DeclareParams(s1, nd.params, 1, nd.line)
      s3 == Resolve(P, nd.a, s2)
  IN IF s3.err # "" THEN s3
     ELSE [EndScope(s3) EXCEPT !.function = st.function]

RsFunStmt(P, n, st) ==
  LET nd == P[n]
  IN RsFunction(P, n, "Function", RsDefine(Declare(st, nd.name, nd.line), nd.name))

RsMethods(P, methods, i, st) ==
  IF st.err # "" \/ i > Len(methods) THEN st
  ELSE RsMethods(P, methods, i + 1,
         RsFunction(P, methods[i],
                    IF P[methods[i]].name = "init" THEN "Initializer" ELSE "Method", st))

RsClassStmt(P, n, st) ==
  LET nd == P[n]
      s1 == RsDefine(Declare([st EXCEPT !.class = "Class"], nd.name, nd.line), nd.name)
      s2 == IF s1.err # "" THEN s1
            ELSE [BeginScope(s1) EXCEPT !.scopes[Len(s1.scopes) + 1] = Insert(@, "this", TRUE)]
      s3 == RsMethods(P, nd.kids, 1, s2)
  IN IF s3.err # "" THEN s3
     ELSE [EndScope(s3) EXCEPT !.class = st.class]

\* A class statement with a superclass, after the specification: the
\* superclass variable is resolved, and the methods are resolved inside a scope
\* that defines super around the scope that defines this.
RsSubclassStmt(P, n, st) ==
  LET nd == P[n]
      s1 == RsDefine(Declare([st EXCEPT !.class = "Subclass"], nd.name, nd.line), nd.name)
      s2 == IF s1.err # "" THEN s1
            ELSE IF P[nd.a].name = nd.name THEN RsFail(s1, "InheritFromItself", nd.line)
            ELSE RsVarExpr(P, nd.a, s1)
      s3 == IF s2.err # "" THEN s2
            ELSE LET outer == [BeginScope(s2) EXCEPT
                                 !.scopes[Len(s2.scopes) + 1] = Insert(@, "super", TRUE)]
                 IN [BeginScope(outer) EXCEPT
                       !.scopes[Len(outer.scopes) + 1] = Insert(@, "this", TRUE)]
      s4 == RsMethods(P, nd.kids, 1, s3)
  IN IF s4.err # "" THEN s4
     ELSE [EndScope(EndScope(s4)) EXCEPT !.class = st.class]

\* An rs_var_stmt that defines the name before it resolves the initializer.
RsVarStmt_defineFirst(P, n, st) ==
  LET nd == P[n]
      s1 == RsDefine(Declare(st, nd.name, nd.line), nd.name)
  IN IF IsNilLiteral(P[nd.a]) THEN s1 ELSE RsExpression(P, nd.a, s1)

RsVarStmt(P, n, st) ==
  LET nd == P[n]
      s1 == Declare(st, nd.name, nd.line)
      s2 == IF IsNilLiteral(P[nd.a]) THEN s1 ELSE RsExpression(P, nd.a, s1)
  IN RsDefine(s2, nd.name)

RsReturnStmt(P, n, st) ==
  LET nd == P[n]
  IN IF st.function = "None" THEN RsFail(st, "TopLevelReturn", nd.line)
     ELSE IF ~IsNilLiteral(P[nd.a]) /\ st.function = "Initializer"
       THEN RsFail(st, "ReturnInAnInitializer", nd.line)
     ELSE RsExpression(P, nd.a, st)

RsBlockStmt(P, n, st) ==
  LET s1 == ResolveAll(P, P[n].kids, 1, BeginScope(st))
  IN IF s1.err # "" THEN s1 ELSE EndScope(s1)

Resolve(P, n, st) ==
  LET nd == P[n]
  IN IF st.err # "" THEN st
     ELSE CASE nd.k = "Var" -> RsVarStmt(P, n, st)
            [] nd.k \in {"Expression", "Print"} -> RsExpression(P, nd.a, st)
            [] nd.k = "Function" -> RsFunStmt(P, n, st)
            [] nd.k = "If" ->
                 Resolve(P, nd.b, Resolve(P, nd.c, RsExpression(P, nd.a, st)))
            [] nd.k = "Block" -> RsBlockStmt(P, n, st)
            [] nd.k = "Return" -> RsReturnStmt(P, n, st)
            [] nd.k = "While" -> Resolve(P, nd.b, RsExpression(P, nd.a, st))
            [] nd.k = "Class" ->
                 IF nd.a = 0 THEN RsClassStmt(P, n, st) ELSE RsSubclassStmt(P, n, st)

ResolveAll(P, stmts, i, st) ==
  IF st.err # "" \/ i > Len(stmts) THEN st
  ELSE ResolveAll(P, stmts, i + 1, Resolve(P, stmts[i], st))

\* Resolver::new, then resolve_stmts on the top-level statements.
ResolveStmts(P) ==
  ResolveAll(P, P[1].kids, 1,
             [scopes |-> <<>>, depth |-> [n \in 1..Len(P) |-> None],
              err |-> "", line |-> 0, function |-> "None", class |-> "None"])

(***************************************************************************)
(* Callables and instances.                                               *)
(***************************************************************************)
\* An arity that is 0 for every callable.
Arity_zero(P, callable) == 0

\* Callable::arity: FunStmt::arity, NativeFn.arity, ClassDec::arity
Arity(P, callable) ==
  CASE callable.t = "User" -> Len(P[callable.n].params)
    [] callable.t = "Native" -> callable.n
    [] callable.t = "Class" -> 0

\* ClassDec::call: ClassInstance::new(self.clone())
ClassDecCall(class) == InstanceV(class.n, class.c, EmptyMap)

\* The HashMap of FunStmt::call: the parameters zipped with the arguments.
RECURSIVE FunBindings(_, _, _)
FunBindings(params, args, i) ==
  IF i > Len(params) \/ i > Len(args) THEN EmptyMap
  ELSE LET rest == FunBindings(params, args, i + 1)
       IN \* a later parameter of the same name overwrites an earlier one
          IF params[i] \in DOMAIN rest THEN rest ELSE Insert(rest, params[i], args[i])

\* FunStmt::call up to the call of execute_block: the scope of the parameters.
\* A FunStmt::call that parents the new scope at the caller's scope.
FunStmtCallEnter_atCaller(P, e, fn, args) ==
  PushClosure(e, FunBindings(P[fn.n].params, args, 1), e.curr_node, fn.n)

FunStmtCallEnter(P, e, fn, args) ==
  IF fn.c # None
    THEN PushClosure(e, FunBindings(P[fn.n].params, args, 1), fn.c, fn.n)
    ELSE e

\* A FunStmt::call that does not restore the scope id.
FunStmtCallExit_noRestore(e, previous, result) ==
  [env |-> e,
   res |-> IF result.kind = "Return" THEN Ok(result.val) ELSE Ok(NilV)]

\* A FunStmt::call that hands the Return on to its caller.
FunStmtCallExit_passReturn(e, previous, result) ==
  [env |-> [e EXCEPT !.curr_node = previous],
   res |-> IF result.kind = "Return" THEN result ELSE Ok(NilV)]

\* FunStmt::call after execute_block: the saved scope id is restored and the
\* ExecResult becomes the call's value.
FunStmtCallExit(e, previous, result) ==
  [env |-> [e EXCEPT !.curr_node = previous],
   res |-> IF result.kind = "Return" THEN Ok(result.val) ELSE Ok(NilV)]

\* ClassDec::find_method on the HashMap class_statement collected: of two
\* methods of one name the later one is kept. 0: no such method.
RECURSIVE FindMethod(_, _, _, _)
FindMethod(P, methods, name, i) ==
  IF i = 0 THEN 0
  ELSE IF P[methods[i]].name = name THEN methods[i]
  ELSE FindMethod(P, methods, name, i - 1)

\* FunStmt::bind: [env, closure], the method's new closure holding this.
Bind(e, method_closure, instance) ==
  LET curr_node == e.curr_node
      bindings == Insert(EmptyMap, "this", instance)
      pushed == IF method_closure # None
                  THEN PushClosure(e, bindings, method_closure, instance.n)
                  ELSE PushClosure(e, bindings, curr_node, instance.n)
  IN [env |-> [pushed EXCEPT !.curr_node = curr_node], closure |-> pushed.curr_node]

\* ClassInstance::get: [env, res]
InstanceGet(P, e, instance, name, line) ==
  LET method == FindMethod(P, P[instance.n].kids, name, Len(P[instance.n].kids))
  IN IF name \in DOMAIN instance.f
       THEN [env |-> e, res |-> Ok(instance.f[name])]
     ELSE IF method # 0
       THEN LET b == Bind(e, instance.c, instance)
            IN [env |-> b.env, res |-> Ok(UserV(method, b.closure))]
     ELSE [env |-> e, res |-> Err("UndefinedProperty", line)]

\* ClassInstance::set
InstanceSet(instance, name, value) == [instance EXCEPT !.f = Insert(@, name, value)]

\* A super.name that looks the method up in the class of this.
SuperGet_ownClass(P, e, dist, name, line) ==
  LET object == GetAt(e, dist - 1, "this", line)
  IN IF object.kind # "Val" THEN [env |-> e, res |-> object]
     ELSE InstanceGet(P, e, [object.val EXCEPT !.f = EmptyMap], name, line)

\* super.name, after the specification: the superclass is read from the scope
\* at the recorded depth and this from one scope closer; the method is looked
\* up in the superclass's methods and bound to this: [env, res]
SuperGet(P, e, dist, name, line) ==
  LET superclass == GetAt(e, dist, "super", line)
      object == GetAt(e, dist - 1, "this", line)
      methods == P[superclass.val.n].kids
      method == FindMethod(P, methods, name, Len(methods))
  IN IF superclass.kind # "Val" THEN [env |-> e, res |-> superclass]
     ELSE IF object.kind # "Val" THEN [env |-> e, res |-> object]
     ELSE IF method = 0 THEN [env |-> e, res |-> Err("UndefinedProperty", line)]
     ELSE LET b == Bind(e, superclass.val.c, object.val)
          IN [env |-> b.env, res |-> Ok(UserV(method, b.closure))]

(***************************************************************************)
(* The programs run: each is the statement list the parser returns for    *)
(* the source text shown with it.                                         *)
(***************************************************************************)
\* BEGIN PROGRAMS
(* tests::test_closure, the counter called $N times, and a second counter
     fun makeCounter() {
       var i = 0;
       fun count() {
         i = i + 1;
         return i;
       }
       return count;
     }
     var counter = makeCounter();
     var other = makeCounter();
     var j = 0;
     while (j < $N) {
       print counter();
       j = j + 1;
     }
     print other();
*)
ProgCounter ==
  <<
  Nd("Program", "", 0, 0, 0, <<2, 17, 20, 23, 25, 38>>, <<>>, NilV, 0),  \* 1
  Nd("Function", "makeCounter", 3, 0, 0, <<>>, <<>>, NilV, 1),  \* 2
  Nd("Block", "", 0, 0, 0, <<4, 6, 15>>, <<>>, NilV, 1),  \* 3
  Nd("Var", "i", 5, 0, 0, <<>>, <<>>, NilV, 2),  \* 4
  Nd("Literal", "", 0, 0, 0, <<>>, <<>>, NumV(0), 2),  \* 5
  Nd("Function", "count", 7, 0, 0, <<>>, <<>>, NilV, 3),  \* 6
  Nd("Block", "", 0, 0, 0, <<8, 13>>, <<>>, NilV, 3),  \* 7
  Nd("Expression", "", 9, 0, 0, <<>>, <<>>, NilV, 4),  \* 8
  Nd("Assign", "i", 12, 0, 0, <<>>, <<>>, NilV, 4),  \* 9
  Nd("VarExpr", "i", 0, 0, 0, <<>>, <<>>, NilV, 4),  \* 10
  Nd("Literal", "", 0, 0, 0, <<>>, <<>>, NumV(1), 4),  \* 11
  Nd("Binary", "Plus", 10, 11, 0, <<>>, <<>>, NilV, 4),  \* 12
  Nd("Return", "value", 14, 0, 0, <<>>, <<>>, NilV, 5),  \* 13
  Nd("VarExpr", "i", 0, 0, 0, <<>>, <<>>, NilV, 5),  \* 14
  Nd("Return", "value", 16, 0, 0, <<>>, <<>>, NilV, 7),  \* 15
  Nd("VarExpr", "count", 0, 0, 0, <<>>, <<>>, NilV, 7),  \* 16
  Nd("Var", "counter", 19, 0, 0, <<>>, <<>>, NilV, 9),  \* 17
  Nd("VarExpr", "makeCounter", 0, 0, 0, <<>>, <<>>, NilV, 9),  \* 18
  Nd("Call", "", 18, 0, 0, <<>>, <<>>, NilV, 9),  \* 19
  Nd("Var", "other", 22, 0, 0, <<>>, <<>>, NilV, 10),  \* 20
  Nd("VarExpr", "makeCounter", 0, 0, 0, <<>>, <<>>, NilV, 10),  \* 21
  Nd("Call", "", 21, 0, 0, <<>>, <<>>, NilV, 10),  \* 22
  Nd("Var", "j", 24, 0, 0, <<>>, <<>>, NilV, 11),  \* 23
  Nd("Literal", "", 0, 0, 0, <<>>, <<>>, NumV(0), 11),  \* 24
  Nd("While", "", 28, 29, 0, <<>>, <<>>, NilV, 12),  \* 25
  Nd("VarExpr", "j", 0, 0, 0, <<>>, <<>>, NilV, 12),  \* 26
  Nd("Literal", "N", 0, 0, 0, <<>>, <<>>, NumV(0), 12),  \* 27
  Nd("Binary", "Less", 26, 27, 0, <<>>, <<>>, NilV, 12),  \* 28
  Nd("Block", "", 0, 0, 0, <<30, 33>>, <<>>, NilV, 12),  \* 29
  Nd("Print", "", 32, 0, 0, <<>>, <<>>, NilV, 13),  \* 30
  Nd("VarExpr", "counter", 0, 0, 0, <<>>, <<>>, NilV, 13),  \* 31
  Nd("Call", "", 31, 0, 0, <<>>, <<>>, NilV, 13),  \* 32
  Nd("Expression", "", 34, 0, 0, <<>>, <<>>, NilV, 14),  \* 33
  Nd("Assign", "j", 37, 0, 0, <<>>, <<>>, NilV, 14),  \* 34
  Nd("VarExpr", "j", 0, 0, 0, <<>>, <<>>, NilV, 14),  \* 35
  Nd("Literal", "", 0, 0, 0, <<>>, <<>>, NumV(1), 14),  \* 36
  Nd("Binary", "Plus", 35, 36, 0, <<>>, <<>>, NilV, 14),  \* 37
  Nd("Print", "", 40, 0, 0, <<>>, <<>>, NilV, 16),  \* 38
  Nd("VarExpr", "other", 0, 0, 0, <<>>, <<>>, NilV, 16),  \* 39
  Nd("Call", "", 39, 0, 0, <<>>, <<>>, NilV, 16)  \* 40
  >>

(* tests::test_recursion_fibonacci with fib($N)
     fun fib(n) {
       if (n <= 1) return n;
       return fib(n - 2) + fib(n - 1);
     }
     print fib($N);
*)
ProgFib ==
  <<
  Nd("Program", "", 0, 0, 0, <<2, 24>>, <<>>, NilV, 0),  \* 1
  Nd("Function", "fib", 3, 0, 0, <<>>, <<"n">>, NilV, 1),  \* 2
  Nd("Block", "", 0, 0, 0, <<4, 12>>, <<>>, NilV, 1),  \* 3
  Nd("If", "", 7, 8, 10, <<>>, <<>>, NilV, 2),  \* 4
  Nd("VarExpr", "n", 0, 0, 0, <<>>, <<>>, NilV, 2),  \* 5
  Nd("Literal", "", 0, 0, 0, <<>>, <<>>, NumV(1), 2),  \* 6
  Nd("Binary", "LessEqual", 5, 6, 0, <<>>, <<>>, NilV, 2),  \* 7
  Nd("Return", "value", 9, 0, 0, <<>>, <<>>, NilV, 2),  \* 8
  Nd("VarExpr", "n", 0, 0, 0, <<>>, <<>>, NilV, 2),  \* 9
  Nd("Expression", "", 11, 0, 0, <<>>, <<>>, NilV, 2),  \* 10
  Nd("Literal", "", 0, 0, 0, <<>>, <<>>, NilV, 2),  \* 11
  Nd("Return", "value", 23, 0, 0, <<>>, <<>>, NilV, 3),  \* 12
  Nd("VarExpr", "fib", 0, 0, 0, <<>>, <<>>, NilV, 3),  \* 13
  Nd("VarExpr", "n", 0, 0, 0, <<>>, <<>>, NilV, 3),  \* 14
  Nd("Literal", "", 0, 0, 0, <<>>, <<>>, NumV(2), 3),  \* 15
  Nd("Binary", "Minus", 14, 15, 0, <<>>, <<>>, NilV, 3),  \* 16
  Nd("Call", "", 13, 0, 0, <<16>>, <<>>, NilV, 3),  \* 17
  Nd("VarExpr", "fib", 0, 0, 0, <<>>, <<>>, NilV, 3),  \* 18
  Nd("VarExpr", "n", 0, 0, 0, <<>>, <<>>, NilV, 3),  \* 19
  Nd("Literal", "", 0, 0, 0, <<>>, <<>>, NumV(1), 3),  \* 20
  Nd("Binary", "Minus", 19, 20, 0, <<>>, <<>>, NilV, 3),  \* 21
  Nd("Call", "", 18, 0, 0, <<21>>, <<>>, NilV, 3),  \* 22
  Nd("Binary", "Plus", 17, 22, 0, <<>>, <<>>, NilV, 3),  \* 23
  Nd("Print", "", 27, 0, 0, <<>>, <<>>, NilV, 5),  \* 24
  Nd("VarExpr", "fib", 0, 0, 0, <<>>, <<>>, NilV, 5),  \* 25
  Nd("Literal", "N", 0, 0, 0, <<>>, <<>>, NumV(0), 5),  \* 26
  Nd("Call", "", 25, 0, 0, <<26>>, <<>>, NilV, 5)  \* 27
  >>

(* a return inside a block inside an if inside a while; the caller loops too
     fun find(limit) {
       var i = 0;
       while (true) {
         if (i >= limit) {
           { return i; }
         } else print "loop";
         i = i + 1;
       }
       print "unreachable";
     }
     fun noret() { var x = 1; }
     var t = 0;
     while (t < 2) {
       { print find($N); }
       t = t + 1;
     }
     print noret();
     print "end";
*)
ProgReturn ==
  <<
  Nd("Program", "", 0, 0, 0, <<2, 26, 30, 32, 47, 50>>, <<>>, NilV, 0),  \* 1
  Nd("Function", "find", 3, 0, 0, <<>>, <<"limit">>, NilV, 1),  \* 2
  Nd("Block", "", 0, 0, 0, <<4, 6, 24>>, <<>>, NilV, 1),  \* 3
  Nd("Var", "i", 5, 0, 0, <<>>, <<>>, NilV, 2),  \* 4
  Nd("Literal", "", 0, 0, 0, <<>>, <<>>, NumV(0), 2),  \* 5
  Nd("While", "", 7, 8, 0, <<>>, <<>>, NilV, 3),  \* 6
  Nd("Literal", "", 0, 0, 0, <<>>, <<>>, BoolV(TRUE), 3),  \* 7
  Nd("Block", "", 0, 0, 0, <<9, 19>>, <<>>, NilV, 3),  \* 8
  Nd("If", "", 12, 13, 17, <<>>, <<>>, NilV, 4),  \* 9
  Nd("VarExpr", "i", 0, 0, 0, <<>>, <<>>, NilV, 4),  \* 10
  Nd("VarExpr", "limit", 0, 0, 0, <<>>, <<>>, NilV, 4),  \* 11
  Nd("Binary", "GreaterEqual", 10, 11, 0, <<>>, <<>>, NilV, 4),  \* 12
  Nd("Block", "", 0, 0, 0, <<14>>, <<>>, NilV, 4),  \* 13
  Nd("Block", "", 0, 0, 0, <<15>>, <<>>, NilV, 5),  \* 14
  Nd("Return", "value", 16, 0, 0, <<>>, <<>>, NilV, 5),  \* 15
  Nd("VarExpr", "i", 0, 0, 0, <<>>, <<>>, NilV, 5),  \* 16
  Nd("Print", "", 18, 0, 0, <<>>, <<>>, NilV, 6),  \* 17
  Nd("Literal", "", 0, 0, 0, <<>>, <<>>, StrV("loop"), 6),  \* 18
  Nd("Expression", "", 20, 0, 0, <<>>, <<>>, NilV, 7),  \* 19
  Nd("Assign", "i", 23, 0, 0, <<>>, <<>>, NilV, 7),  \* 20
  Nd("VarExpr", "i", 0, 0, 0, <<>>, <<>>, NilV, 7),  \* 21
  Nd("Literal", "", 0, 0, 0, <<>>, <<>>, NumV(1), 7),  \* 22
  Nd("Binary", "Plus", 21, 22, 0, <<>>, <<>>, NilV, 7),  \* 23
  Nd("Print", "", 25, 0, 0, <<>>, <<>>, NilV, 9),  \* 24
  Nd("Literal", "", 0, 0, 0, <<>>, <<>>, StrV("unreachable"), 9),  \* 25
  Nd("Function", "noret", 27, 0, 0, <<>>, <<>>, NilV, 11),  \* 26
  Nd("Block", "", 0, 0, 0, <<28>>, <<>>, NilV, 11),  \* 27
  Nd("Var", "x", 29, 0, 0, <<>>, <<>>, NilV, 11),  \* 28
  Nd("Literal", "", 0, 0, 0, <<>>, <<>>, NumV(1), 11),  \* 29
  Nd("Var", "t", 31, 0, 0, <<>>, <<>>, NilV, 12),  \* 30
  Nd("Literal", "", 0, 0, 0, <<>>, <<>>, NumV(0), 12),  \* 31
  Nd("While", "", 35, 36, 0, <<>>, <<>>, NilV, 13),  \* 32
  Nd("VarExpr", "t", 0, 0, 0, <<>>, <<>>, NilV, 13),  \* 33
  Nd("Literal", "", 0, 0, 0, <<>>, <<>>, NumV(2), 13),  \* 34
  Nd("Binary", "Less", 33, 34, 0, <<>>, <<>>, NilV, 13),  \* 35
  Nd("Block", "", 0, 0, 0, <<37, 42>>, <<>>, NilV, 13),  \* 36
  Nd("Block", "", 0, 0, 0, <<38>>, <<>>, NilV, 14),  \* 37
  Nd("Print", "", 41, 0, 0, <<>>, <<>>, NilV, 14),  \* 38
  Nd("VarExpr", "find", 0, 0, 0, <<>>, <<>>, NilV, 14),  \* 39
  Nd("Literal", "N", 0, 0, 0, <<>>, <<>>, NumV(0), 14),  \* 40
  Nd("Call", "", 39, 0, 0, <<40>>, <<>>, NilV, 14),  \* 41
  Nd("Expression", "", 43, 0, 0, <<>>, <<>>, NilV, 15),  \* 42
  Nd("Assign", "t", 46, 0, 0, <<>>, <<>>, NilV, 15),  \* 43
  Nd("VarExpr", "t", 0, 0, 0, <<>>, <<>>, NilV, 15),  \* 44
  Nd("Literal", "", 0, 0, 0, <<>>, <<>>, NumV(1), 15),  \* 45
  Nd("Binary", "Plus", 44, 45, 0, <<>>, <<>>, NilV, 15),  \* 46
  Nd("Print", "", 49, 0, 0, <<>>, <<>>, NilV, 17),  \* 47
  Nd("VarExpr", "noret", 0, 0, 0, <<>>, <<>>, NilV, 17),  \* 48
  Nd("Call", "", 48, 0, 0, <<>>, <<>>, NilV, 17),  \* 49
  Nd("Print", "", 51, 0, 0, <<>>, <<>>, NilV, 18),  \* 50
  Nd("Literal", "", 0, 0, 0, <<>>, <<>>, StrV("end"), 18)  \* 51
  >>

(* a block declares a name after a function that reads it was declared
     var a = "global";
     {
       var a = "outer";
       {
         fun show() { return a; }
         print show();
         var a = "inner";
         print show();
         a = "changed";
         print a;
       }
       print a;
     }
     print a;
*)
ProgShadow ==
  <<
  Nd("Program", "", 0, 0, 0, <<2, 4, 27>>, <<>>, NilV, 0),  \* 1
  Nd("Var", "a", 3, 0, 0, <<>>, <<>>, NilV, 1),  \* 2
  Nd("Literal", "", 0, 0, 0, <<>>, <<>>, StrV("global"), 1),  \* 3
  Nd("Block", "", 0, 0, 0, <<5, 7, 25>>, <<>>, NilV, 2),  \* 4
  Nd("Var", "a", 6, 0, 0, <<>>, <<>>, NilV, 3),  \* 5
  Nd("Literal", "", 0, 0, 0, <<>>, <<>>, StrV("outer"), 3),  \* 6
  Nd("Block", "", 0, 0, 0, <<8, 12, 15, 17, 20, 23>>, <<>>, NilV, 4),  \* 7
  Nd("Function", "show", 9, 0, 0, <<>>, <<>>, NilV, 5),  \* 8
  Nd("Block", "", 0, 0, 0, <<10>>, <<>>, NilV, 5),  \* 9
  Nd("Return", "value", 11, 0, 0, <<>>, <<>>, NilV, 5),  \* 10
  Nd("VarExpr", "a", 0, 0, 0, <<>>, <<>>, NilV, 5),  \* 11
  Nd("Print", "", 14, 0, 0, <<>>, <<>>, NilV, 6),  \* 12
  Nd("VarExpr", "show", 0, 0, 0, <<>>, <<>>, NilV, 6),  \* 13
  Nd("Call", "", 13, 0, 0, <<>>, <<>>, NilV, 6),  \* 14
  Nd("Var", "a", 16, 0, 0, <<>>, <<>>, NilV, 7),  \* 15
  Nd("Literal", "", 0, 0, 0, <<>>, <<>>, StrV("inner"), 7),  \* 16
  Nd("Print", "", 19, 0, 0, <<>>, <<>>, NilV, 8),  \* 17
  Nd("VarExpr", "show", 0, 0, 0, <<>>, <<>>, NilV, 8),  \* 18
  Nd("Call", "", 18, 0, 0, <<>>, <<>>, NilV, 8),  \* 19
  Nd("Expression", "", 21, 0, 0, <<>>, <<>>, NilV, 9),  \* 20
  Nd("Assign", "a", 22, 0, 0, <<>>, <<>>, NilV, 9),  \* 21
  Nd("Literal", "", 0, 0, 0, <<>>, <<>>, StrV("changed"), 9),  \* 22
  Nd("Print", "", 24, 0, 0, <<>>, <<>>, NilV, 10),  \* 23
  Nd("VarExpr", "a", 0, 0, 0, <<>>, <<>>, NilV, 10),  \* 24
  Nd("Print", "", 26, 0, 0, <<>>, <<>>, NilV, 12),  \* 25
  Nd("VarExpr", "a", 0, 0, 0, <<>>, <<>>, NilV, 12),  \* 26
  Nd("Print", "", 28, 0, 0, <<>>, <<>>, NilV, 14),  \* 27
  Nd("VarExpr", "a", 0, 0, 0, <<>>, <<>>, NilV, 14)  \* 28
  >>

(* a function reads a global that its block shadows later
     var a = "global";
     {
       fun show() { return a; }
       fun set() { a = "set"; }
       var a = "block";
       set();
       print show();
       print a;
     }
*)
ProgLateLocal ==
  <<
  Nd("Program", "", 0, 0, 0, <<2, 4>>, <<>>, NilV, 0),  \* 1
  Nd("Var", "a", 3, 0, 0, <<>>, <<>>, NilV, 1),  \* 2
  Nd("Literal", "", 0, 0, 0, <<>>, <<>>, StrV("global"), 1),  \* 3
  Nd("Block", "", 0, 0, 0, <<5, 9, 14, 16, 19, 22>>, <<>>, NilV, 2),  \* 4
  Nd("Function", "show", 6, 0, 0, <<>>, <<>>, NilV, 3),  \* 5
  Nd("Block", "", 0, 0, 0, <<7>>, <<>>, NilV, 3),  \* 6
  Nd("Return", "value", 8, 0, 0, <<>>, <<>>, NilV, 3),  \* 7
  Nd("VarExpr", "a", 0, 0, 0, <<>>, <<>>, NilV, 3),  \* 8
  Nd("Function", "set", 10, 0, 0, <<>>, <<>>, NilV, 4),  \* 9
  Nd("Block", "", 0, 0, 0, <<11>>, <<>>, NilV, 4),  \* 10
  Nd("Expression", "", 12, 0, 0, <<>>, <<>>, NilV, 4),  \* 11
  Nd("Assign", "a", 13, 0, 0, <<>>, <<>>, NilV, 4),  \* 12
  Nd("Literal", "", 0, 0, 0, <<>>, <<>>, StrV("set"), 4),  \* 13
  Nd("Var", "a", 15, 0, 0, <<>>, <<>>, NilV, 5),  \* 14
  Nd("Literal", "", 0, 0, 0, <<>>, <<>>, StrV("block"), 5),  \* 15
  Nd("Expression", "", 18, 0, 0, <<>>, <<>>, NilV, 6),  \* 16
  Nd("VarExpr", "set", 0, 0, 0, <<>>, <<>>, NilV, 6),  \* 17
  Nd("Call", "", 17, 0, 0, <<>>, <<>>, NilV, 6),  \* 18
  Nd("Print", "", 21, 0, 0, <<>>, <<>>, NilV, 7),  \* 19
  Nd("VarExpr", "show", 0, 0, 0, <<>>, <<>>, NilV, 7),  \* 20
  Nd("Call", "", 20, 0, 0, <<>>, <<>>, NilV, 7),  \* 21
  Nd("Print", "", 23, 0, 0, <<>>, <<>>, NilV, 8),  \* 22
  Nd("VarExpr", "a", 0, 0, 0, <<>>, <<>>, NilV, 8)  \* 23
  >>

(* an assignment to the variable inside its own initializer
     {
       var a = a = $N;
       print a;
     }
*)
ProgSelfAssign ==
  <<
  Nd("Program", "", 0, 0, 0, <<2>>, <<>>, NilV, 0),  \* 1
  Nd("Block", "", 0, 0, 0, <<3, 6>>, <<>>, NilV, 1),  \* 2
  Nd("Var", "a", 4, 0, 0, <<>>, <<>>, NilV, 2),  \* 3
  Nd("Assign", "a", 5, 0, 0, <<>>, <<>>, NilV, 2),  \* 4
  Nd("Literal", "N", 0, 0, 0, <<>>, <<>>, NumV(0), 2),  \* 5
  Nd("Print", "", 7, 0, 0, <<>>, <<>>, NilV, 3),  \* 6
  Nd("VarExpr", "a", 0, 0, 0, <<>>, <<>>, NilV, 3)  \* 7
  >>

(* methods, this and property access
     class Box {
       me() { return this; }
       put(v) { this.val = v; return v; }
     }
     var b = Box();
     var m = b.me;
     print m().put($N);
     print (-1 + 2 * 3 > 4) or !nil;
     print false and 1;
     print b.val;
*)
ProgMethod ==
  <<
  Nd("Program", "", 0, 0, 0, <<2, 15, 18, 21, 27, 40, 44>>, <<>>, NilV, 0),  \* 1
  Nd("Class", "Box", 0, 0, 0, <<3, 7>>, <<>>, NilV, 1),  \* 2
  Nd("Function", "me", 4, 0, 0, <<>>, <<>>, NilV, 2),  \* 3
  Nd("Block", "", 0, 0, 0, <<5>>, <<>>, NilV, 2),  \* 4
  Nd("Return", "value", 6, 0, 0, <<>>, <<>>, NilV, 2),  \* 5
  Nd("This", "this", 0, 0, 0, <<>>, <<>>, NilV, 2),  \* 6
  Nd("Function", "put", 8, 0, 0, <<>>, <<"v">>, NilV, 3),  \* 7
  Nd("Block", "", 0, 0, 0, <<9, 13>>, <<>>, NilV, 3),  \* 8
  Nd("Expression", "", 11, 0, 0, <<>>, <<>>, NilV, 3),  \* 9
  Nd("This", "this", 0, 0, 0, <<>>, <<>>, NilV, 3),  \* 10
  Nd("Set", "val", 10, 12, 0, <<>>, <<>>, NilV, 3),  \* 11
  Nd("VarExpr", "v", 0, 0, 0, <<>>, <<>>, NilV, 3),  \* 12
  Nd("Return", "value", 14, 0, 0, <<>>, <<>>, NilV, 3),  \* 13
  Nd("VarExpr", "v", 0, 0, 0, <<>>, <<>>, NilV, 3),  \* 14
  Nd("Var", "b", 17, 0, 0, <<>>, <<>>, NilV, 5),  \* 15
  Nd("VarExpr", "Box", 0, 0, 0, <<>>, <<>>, NilV, 5),  \* 16
  Nd("Call", "", 16, 0, 0, <<>>, <<>>, NilV, 5),  \* 17
  Nd("Var", "m", 20, 0, 0, <<>>, <<>>, NilV, 6),  \* 18
  Nd("VarExpr", "b", 0, 0, 0, <<>>, <<>>, NilV, 6),  \* 19
  Nd("Get", "me", 19, 0, 0, <<>>, <<>>, NilV, 6),  \* 20
  Nd("Print", "", 26, 0, 0, <<>>, <<>>, NilV, 7),  \* 21
  Nd("VarExpr", "m", 0, 0, 0, <<>>, <<>>, NilV, 7),  \* 22
  Nd("Call", "", 22, 0, 0, <<>>, <<>>, NilV, 7),  \* 23
  Nd("Get", "put", 23, 0, 0, <<>>, <<>>, NilV, 7),  \* 24
  Nd("Literal", "N", 0, 0, 0, <<>>, <<>>, NumV(0), 7),  \* 25
  Nd("Call", "", 24, 0, 0, <<25>>, <<>>, NilV, 7),  \* 26
  Nd("Print", "", 39, 0, 0, <<>>, <<>>, NilV, 8),  \* 27
  Nd("Grouping", "", 36, 0, 0, <<>>, <<>>, NilV, 8),  \* 28
  Nd("Unary", "Minus", 30, 0, 0, <<>>, <<>>, NilV, 8),  \* 29
  Nd("Literal", "", 0, 0, 0, <<>>, <<>>, NumV(1), 8),  \* 30
  Nd("Literal", "", 0, 0, 0, <<>>, <<>>, NumV(2), 8),  \* 31
  Nd("Literal", "", 0, 0, 0, <<>>, <<>>, NumV(3), 8),  \* 32
  Nd("Binary", "Star", 31, 32, 0, <<>>, <<>>, NilV, 8),  \* 33
  Nd("Binary", "Plus", 29, 33, 0, <<>>, <<>>, NilV, 8),  \* 34
  Nd("Literal", "", 0, 0, 0, <<>>, <<>>, NumV(4), 8),  \* 35
  Nd("Binary", "Greater", 34, 35, 0, <<>>, <<>>, NilV, 8),  \* 36
  Nd("Unary", "Bang", 38, 0, 0, <<>>, <<>>, NilV, 8),  \* 37
  Nd("Literal", "", 0, 0, 0, <<>>, <<>>, NilV, 8),  \* 38
  Nd("Logical", "Or", 28, 37, 0, <<>>, <<>>, NilV, 8),  \* 39
  Nd("Print", "", 43, 0, 0, <<>>, <<>>, NilV, 9),  \* 40
  Nd("Literal", "", 0, 0, 0, <<>>, <<>>, BoolV(FALSE), 9),  \* 41
  Nd("Literal", "", 0, 0, 0, <<>>, <<>>, NumV(1), 9),  \* 42
  Nd("Logical", "And", 41, 42, 0, <<>>, <<>>, NilV, 9),  \* 43
  Nd("Print", "", 46, 0, 0, <<>>, <<>>, NilV, 10),  \* 44
  Nd("VarExpr", "b", 0, 0, 0, <<>>, <<>>, NilV, 10),  \* 45
  Nd("Get", "val", 45, 0, 0, <<>>, <<>>, NilV, 10)  \* 46
  >>

(* a class declared inside a block
     {
       class Local { }
       print "declared";
     }
*)
ProgLocalClass ==
  <<
  Nd("Program", "", 0, 0, 0, <<2>>, <<>>, NilV, 0),  \* 1
  Nd("Block", "", 0, 0, 0, <<3, 4>>, <<>>, NilV, 1),  \* 2
  Nd("Class", "Local", 0, 0, 0, <<>>, <<>>, NilV, 2),  \* 3
  Nd("Print", "", 5, 0, 0, <<>>, <<>>, NilV, 3),  \* 4
  Nd("Literal", "", 0, 0, 0, <<>>, <<>>, StrV("declared"), 3)  \* 5
  >>

(* tests::test_for_loop with the bound $N
     var a = 0;
     for (var i = 0; i < $N; i = i + 1) {
       a = a + i;
     }
     print a;
*)
ProgFor ==
  <<
  Nd("Program", "", 0, 0, 0, <<2, 4, 23>>, <<>>, NilV, 0),  \* 1
  Nd("Var", "a", 3, 0, 0, <<>>, <<>>, NilV, 1),  \* 2
  Nd("Literal", "", 0, 0, 0, <<>>, <<>>, NumV(0), 1),  \* 3
  Nd("Block", "", 0, 0, 0, <<6, 5>>, <<>>, NilV, 2),  \* 4
  Nd("While", "", 10, 22, 0, <<>>, <<>>, NilV, 2),  \* 5
  Nd("Var", "i", 7, 0, 0, <<>>, <<>>, NilV, 2),  \* 6
  Nd("Literal", "", 0, 0, 0, <<>>, <<>>, NumV(0), 2),  \* 7
  Nd("VarExpr", "i", 0, 0, 0, <<>>, <<>>, NilV, 2),  \* 8
  Nd("Literal", "N", 0, 0, 0, <<>>, <<>>, NumV(0), 2),  \* 9
  Nd("Binary", "Less", 8, 9, 0, <<>>, <<>>, NilV, 2),  \* 10
  Nd("Expression", "", 12, 0, 0, <<>>, <<>>, NilV, 2),  \* 11
  Nd("Assign", "i", 15, 0, 0, <<>>, <<>>, NilV, 2),  \* 12
  Nd("VarExpr", "i", 0, 0, 0, <<>>, <<>>, NilV, 2),  \* 13
  Nd("Literal", "", 0, 0, 0, <<>>, <<>>, NumV(1), 2),  \* 14
  Nd("Binary", "Plus", 13, 14, 0, <<>>, <<>>, NilV, 2),  \* 15
  Nd("Block", "", 0, 0, 0, <<17>>, <<>>, NilV, 2),  \* 16
  Nd("Expression", "", 18, 0, 0, <<>>, <<>>, NilV, 3),  \* 17
  Nd("Assign", "a", 21, 0, 0, <<>>, <<>>, NilV, 3),  \* 18
  Nd("VarExpr", "a", 0, 0, 0, <<>>, <<>>, NilV, 3),  \* 19
  Nd("VarExpr", "i", 0, 0, 0, <<>>, <<>>, NilV, 3),  \* 20
  Nd("Binary", "Plus", 19, 20, 0, <<>>, <<>>, NilV, 3),  \* 21
  Nd("Block", "", 0, 0, 0, <<16, 11>>, <<>>, NilV, 2),  \* 22
  Nd("Print", "", 24, 0, 0, <<>>, <<>>, NilV, 5),  \* 23
  Nd("VarExpr", "a", 0, 0, 0, <<>>, <<>>, NilV, 5)  \* 24
  >>

(* runtime errors at top level
     var n = $N;
     if (n == 0) print missing;
     if (n == 1) print "text"();
     if (n == 2) print nil.field;
     fun two(a, b) { }
     if (n == 3) print two(1);
*)
ProgErrors ==
  <<
  Nd("Program", "", 0, 0, 0, <<2, 4, 12, 21, 30, 32>>, <<>>, NilV, 0),  \* 1
  Nd("Var", "n", 3, 0, 0, <<>>, <<>>, NilV, 1),  \* 2
  Nd("Literal", "N", 0, 0, 0, <<>>, <<>>, NumV(0), 1),  \* 3
  Nd("If", "", 7, 8, 10, <<>>, <<>>, NilV, 2),  \* 4
  Nd("VarExpr", "n", 0, 0, 0, <<>>, <<>>, NilV, 2),  \* 5
  Nd("Literal", "", 0, 0, 0, <<>>, <<>>, NumV(0), 2),  \* 6
  Nd("Binary", "EqualEqual", 5, 6, 0, <<>>, <<>>, NilV, 2),  \* 7
  Nd("Print", "", 9, 0, 0, <<>>, <<>>, NilV, 2),  \* 8
  Nd("VarExpr", "missing", 0, 0, 0, <<>>, <<>>, NilV, 2),  \* 9
  Nd("Expression", "", 11, 0, 0, <<>>, <<>>, NilV, 2),  \* 10
  Nd("Literal", "", 0, 0, 0, <<>>, <<>>, NilV, 2),  \* 11
  Nd("If", "", 15, 16, 19, <<>>, <<>>, NilV, 3),  \* 12
  Nd("VarExpr", "n", 0, 0, 0, <<>>, <<>>, NilV, 3),  \* 13
  Nd("Literal", "", 0, 0, 0, <<>>, <<>>, NumV(1), 3),  \* 14
  Nd("Binary", "EqualEqual", 13, 14, 0, <<>>, <<>>, NilV, 3),  \* 15
  Nd("Print", "", 18, 0, 0, <<>>, <<>>, NilV, 3),  \* 16
  Nd("Literal", "", 0, 0, 0, <<>>, <<>>, StrV("text"), 3),  \* 17
  Nd("Call", "", 17, 0, 0, <<>>, <<>>, NilV, 3),  \* 18
  Nd("Expression", "", 20, 0, 0, <<>>, <<>>, NilV, 3),  \* 19
  Nd("Literal", "", 0, 0, 0, <<>>, <<>>, NilV, 3),  \* 20
  Nd("If", "", 24, 25, 28, <<>>, <<>>, NilV, 4),  \* 21
  Nd("VarExpr", "n", 0, 0, 0, <<>>, <<>>, NilV, 4),  \* 22
  Nd("Literal", "", 0, 0, 0, <<>>, <<>>, NumV(2), 4),  \* 23
  Nd("Binary", "EqualEqual", 22, 23, 0, <<>>, <<>>, NilV, 4),  \* 24
  Nd("Print", "", 27, 0, 0, <<>>, <<>>, NilV, 4),  \* 25
  Nd("Literal", "", 0, 0, 0, <<>>, <<>>, NilV, 4),  \* 26
  Nd("Get", "field", 26, 0, 0, <<>>, <<>>, NilV, 4),  \* 27
  Nd("Expression", "", 29, 0, 0, <<>>, <<>>, NilV, 4),  \* 28
  Nd("Literal", "", 0, 0, 0, <<>>, <<>>, NilV, 4),  \* 29
  Nd("Function", "two", 31, 0, 0, <<>>, <<"a", "b">>, NilV, 5),  \* 30
  Nd("Block", "", 0, 0, 0, <<>>, <<>>, NilV, 5),  \* 31
  Nd("If", "", 35, 36, 40, <<>>, <<>>, NilV, 6),  \* 32
  Nd("VarExpr", "n", 0, 0, 0, <<>>, <<>>, NilV, 6),  \* 33
  Nd("Literal", "", 0, 0, 0, <<>>, <<>>, NumV(3), 6),  \* 34
  Nd("Binary", "EqualEqual", 33, 34, 0, <<>>, <<>>, NilV, 6),  \* 35
  Nd("Print", "", 39, 0, 0, <<>>, <<>>, NilV, 6),  \* 36
  Nd("VarExpr", "two", 0, 0, 0, <<>>, <<>>, NilV, 6),  \* 37
  Nd("Literal", "", 0, 0, 0, <<>>, <<>>, NumV(1), 6),  \* 38
  Nd("Call", "", 37, 0, 0, <<38>>, <<>>, NilV, 6),  \* 39
  Nd("Expression", "", 41, 0, 0, <<>>, <<>>, NilV, 6),  \* 40
  Nd("Literal", "", 0, 0, 0, <<>>, <<>>, NilV, 6)  \* 41
  >>

(* a property write on a value that is no instance
     var n = $N;
     n.field = 1;
*)
ProgSetNil ==
  <<
  Nd("Program", "", 0, 0, 0, <<2, 4>>, <<>>, NilV, 0),  \* 1
  Nd("Var", "n", 3, 0, 0, <<>>, <<>>, NilV, 1),  \* 2
  Nd("Literal", "N", 0, 0, 0, <<>>, <<>>, NumV(0), 1),  \* 3
  Nd("Expression", "", 6, 0, 0, <<>>, <<>>, NilV, 2),  \* 4
  Nd("VarExpr", "n", 0, 0, 0, <<>>, <<>>, NilV, 2),  \* 5
  Nd("Set", "field", 5, 7, 0, <<>>, <<>>, NilV, 2),  \* 6
  Nd("Literal", "", 0, 0, 0, <<>>, <<>>, NumV(1), 2)  \* 7
  >>

(* tests::test_logical_or / test_logical_and, the right operand with a side effect
     var n = 0;
     fun bump() { n = n + 1; return "b"; }
     print $N or bump();
     print n;
     print $N and bump();
     print n;
     print nil or bump();
     print false and bump();
     print "a" or bump();
     print n;
*)
ProgLogical ==
  <<
  Nd("Program", "", 0, 0, 0, <<2, 4, 13, 18, 20, 25, 27, 32, 37, 42>>, <<>>, NilV, 0),  \* 1
  Nd("Var", "n", 3, 0, 0, <<>>, <<>>, NilV, 1),  \* 2
  Nd("Literal", "", 0, 0, 0, <<>>, <<>>, NumV(0), 1),  \* 3
  Nd("Function", "bump", 5, 0, 0, <<>>, <<>>, NilV, 2),  \* 4
  Nd("Block", "", 0, 0, 0, <<6, 11>>, <<>>, NilV, 2),  \* 5
  Nd("Expression", "", 7, 0, 0, <<>>, <<>>, NilV, 2),  \* 6
  Nd("Assign", "n", 10, 0, 0, <<>>, <<>>, NilV, 2),  \* 7
  Nd("VarExpr", "n", 0, 0, 0, <<>>, <<>>, NilV, 2),  \* 8
  Nd("Literal", "", 0, 0, 0, <<>>, <<>>, NumV(1), 2),  \* 9
  Nd("Binary", "Plus", 8, 9, 0, <<>>, <<>>, NilV, 2),  \* 10
  Nd("Return", "value", 12, 0, 0, <<>>, <<>>, NilV, 2),  \* 11
  Nd("Literal", "", 0, 0, 0, <<>>, <<>>, StrV("b"), 2),  \* 12
  Nd("Print", "", 17, 0, 0, <<>>, <<>>, NilV, 3),  \* 13
  Nd("Literal", "N", 0, 0, 0, <<>>, <<>>, NumV(0), 3),  \* 14
  Nd("VarExpr", "bump", 0, 0, 0, <<>>, <<>>, NilV, 3),  \* 15
  Nd("Call", "", 15, 0, 0, <<>>, <<>>, NilV, 3),  \* 16
  Nd("Logical", "Or", 14, 16, 0, <<>>, <<>>, NilV, 3),  \* 17
  Nd("Print", "", 19, 0, 0, <<>>, <<>>, NilV, 4),  \* 18
  Nd("VarExpr", "n", 0, 0, 0, <<>>, <<>>, NilV, 4),  \* 19
  Nd("Print", "", 24, 0, 0, <<>>, <<>>, NilV, 5),  \* 20
  Nd("Literal", "N", 0, 0, 0, <<>>, <<>>, NumV(0), 5),  \* 21
  Nd("VarExpr", "bump", 0, 0, 0, <<>>, <<>>, NilV, 5),  \* 22
  Nd("Call", "", 22, 0, 0, <<>>, <<>>, NilV, 5),  \* 23
  Nd("Logical", "And", 21, 23, 0, <<>>, <<>>, NilV, 5),  \* 24
  Nd("Print", "", 26, 0, 0, <<>>, <<>>, NilV, 6),  \* 25
  Nd("VarExpr", "n", 0, 0, 0, <<>>, <<>>, NilV, 6),  \* 26
  Nd("Print", "", 31, 0, 0, <<>>, <<>>, NilV, 7),  \* 27
  Nd("Literal", "", 0, 0, 0, <<>>, <<>>, NilV, 7),  \* 28
  Nd("VarExpr", "bump", 0, 0, 0, <<>>, <<>>, NilV, 7),  \* 29
  Nd("Call", "", 29, 0, 0, <<>>, <<>>, NilV, 7),  \* 30
  Nd("Logical", "Or", 28, 30, 0, <<>>, <<>>, NilV, 7),  \* 31
  Nd("Print", "", 36, 0, 0, <<>>, <<>>, NilV, 8),  \* 32
  Nd("Literal", "", 0, 0, 0, <<>>, <<>>, BoolV(FALSE), 8),  \* 33
  Nd("VarExpr", "bump", 0, 0, 0, <<>>, <<>>, NilV, 8),  \* 34
  Nd("Call", "", 34, 0, 0, <<>>, <<>>, NilV, 8),  \* 35
  Nd("Logical", "And", 33, 35, 0, <<>>, <<>>, NilV, 8),  \* 36
  Nd("Print", "", 41, 0, 0, <<>>, <<>>, NilV, 9),  \* 37
  Nd("Literal", "", 0, 0, 0, <<>>, <<>>, StrV("a"), 9),  \* 38
  Nd("VarExpr", "bump", 0, 0, 0, <<>>, <<>>, NilV, 9),  \* 39
  Nd("Call", "", 39, 0, 0, <<>>, <<>>, NilV, 9),  \* 40
  Nd("Logical", "Or", 38, 40, 0, <<>>, <<>>, NilV, 9),  \* 41
  Nd("Print", "", 43, 0, 0, <<>>, <<>>, NilV, 10),  \* 42
  Nd("VarExpr", "n", 0, 0, 0, <<>>, <<>>, NilV, 10)  \* 43
  >>

(* calls whose callee and arguments print when they are evaluated
     fun p(x) { print x; return x; }
     fun two(a, b) { print "body"; return a + b; }
     fun pick(x) { print x; return two; }
     var n = $N;
     if (n == 0) print pick("c")(p(1), p(2));
     if (n == 1) print "text"(p(1));
     if (n == 2) print two(p(1));
     if (n == 3) print pick("c")(p(1), p(2), p(3));
     print "end";
*)
ProgCalls ==
  <<
  Nd("Program", "", 0, 0, 0, <<2, 8, 16, 22, 24, 41, 53, 65, 85>>, <<>>, NilV, 0),  \* 1
  Nd("Function", "p", 3, 0, 0, <<>>, <<"x">>, NilV, 1),  \* 2
  Nd("Block", "", 0, 0, 0, <<4, 6>>, <<>>, NilV, 1),  \* 3
  Nd("Print", "", 5, 0, 0, <<>>, <<>>, NilV, 1),  \* 4
  Nd("VarExpr", "x", 0, 0, 0, <<>>, <<>>, NilV, 1),  \* 5
  Nd("Return", "value", 7, 0, 0, <<>>, <<>>, NilV, 1),  \* 6
  Nd("VarExpr", "x", 0, 0, 0, <<>>, <<>>, NilV, 1),  \* 7
  Nd("Function", "two", 9, 0, 0, <<>>, <<"a", "b">>, NilV, 2),  \* 8
  Nd("Block", "", 0, 0, 0, <<10, 12>>, <<>>, NilV, 2),  \* 9
  Nd("Print", "", 11, 0, 0, <<>>, <<>>, NilV, 2),  \* 10
  Nd("Literal", "", 0, 0, 0, <<>>, <<>>, StrV("body"), 2),  \* 11
  Nd("Return", "value", 15, 0, 0, <<>>, <<>>, NilV, 2),  \* 12
  Nd("VarExpr", "a", 0, 0, 0, <<>>, <<>>, NilV, 2),  \* 13
  Nd("VarExpr", "b", 0, 0, 0, <<>>, <<>>, NilV, 2),  \* 14
  Nd("Binary", "Plus", 13, 14, 0, <<>>, <<>>, NilV, 2),  \* 15
  Nd("Function", "pick", 17, 0, 0, <<>>, <<"x">>, NilV, 3),  \* 16
  Nd("Block", "", 0, 0, 0, <<18, 20>>, <<>>, NilV, 3),  \* 17
  Nd("Print", "", 19, 0, 0, <<>>, <<>>, NilV, 3),  \* 18
  Nd("VarExpr", "x", 0, 0, 0, <<>>, <<>>, NilV, 3),  \* 19
  Nd("Return", "value", 21, 0, 0, <<>>, <<>>, NilV, 3),  \* 20
  Nd("VarExpr", "two", 0, 0, 0, <<>>, <<>>, NilV, 3),  \* 21
  Nd("Var", "n", 23, 0, 0, <<>>, <<>>, NilV, 4),  \* 22
  Nd("Literal", "N", 0, 0, 0, <<>>, <<>>, NumV(0), 4),  \* 23
  Nd("If", "", 27, 28, 39, <<>>, <<>>, NilV, 5),  \* 24
  Nd("VarExpr", "n", 0, 0, 0, <<>>, <<>>, NilV, 5),  \* 25
  Nd("Literal", "", 0, 0, 0, <<>>, <<>>, NumV(0), 5),  \* 26
  Nd("Binary", "EqualEqual", 25, 26, 0, <<>>, <<>>, NilV, 5),  \* 27
  Nd("Print", "", 38, 0, 0, <<>>, <<>>, NilV, 5),  \* 28
  Nd("VarExpr", "pick", 0, 0, 0, <<>>, <<>>, NilV, 5),  \* 29
  Nd("Literal", "", 0, 0, 0, <<>>, <<>>, StrV("c"), 5),  \* 30
  Nd("Call", "", 29, 0, 0, <<30>>, <<>>, NilV, 5),  \* 31
  Nd("VarExpr", "p", 0, 0, 0, <<>>, <<>>, NilV, 5),  \* 32
  Nd("Literal", "", 0, 0, 0, <<>>, <<>>, NumV(1), 5),  \* 33
  Nd("Call", "", 32, 0, 0, <<33>>, <<>>, NilV, 5),  \* 34
  Nd("VarExpr", "p", 0, 0, 0, <<>>, <<>>, NilV, 5),  \* 35
  Nd("Literal", "", 0, 0, 0, <<>>, <<>>, NumV(2), 5),  \* 36
  Nd("Call", "", 35, 0, 0, <<36>>, <<>>, NilV, 5),  \* 37
  Nd("Call", "", 31, 0, 0, <<34, 37>>, <<>>, NilV, 5),  \* 38
  Nd("Expression", "", 40, 0, 0, <<>>, <<>>, NilV, 5),  \* 39
  Nd("Literal", "", 0, 0, 0, <<>>, <<>>, NilV, 5),  \* 40
  Nd("If", "", 44, 45, 51, <<>>, <<>>, NilV, 6),  \* 41
  Nd("VarExpr", "n", 0, 0, 0, <<>>, <<>>, NilV, 6),  \* 42
  Nd("Literal", "", 0, 0, 0, <<>>, <<>>, NumV(1), 6),  \* 43
  Nd("Binary", "EqualEqual", 42, 43, 0, <<>>, <<>>, NilV, 6),  \* 44
  Nd("Print", "", 50, 0, 0, <<>>, <<>>, NilV, 6),  \* 45
  Nd("Literal", "", 0, 0, 0, <<>>, <<>>, StrV("text"), 6),  \* 46
  Nd("VarExpr", "p", 0, 0, 0, <<>>, <<>>, NilV, 6),  \* 47
  Nd("Literal", "", 0, 0, 0, <<>>, <<>>, NumV(1), 6),  \* 48
  Nd("Call", "", 47, 0, 0, <<48>>, <<>>, NilV, 6),  \* 49
  Nd("Call", "", 46, 0, 0, <<49>>, <<>>, NilV, 6),  \* 50
  Nd("Expression", "", 52, 0, 0, <<>>, <<>>, NilV, 6),  \* 51
  Nd("Literal", "", 0, 0, 0, <<>>, <<>>, NilV, 6),  \* 52
  Nd("If", "", 56, 57, 63, <<>>, <<>>, NilV, 7),  \* 53
  Nd("VarExpr", "n", 0, 0, 0, <<>>, <<>>, NilV, 7),  \* 54
  Nd("Literal", "", 0, 0, 0, <<>>, <<>>, NumV(2), 7),  \* 55
  Nd("Binary", "EqualEqual", 54, 55, 0, <<>>, <<>>, NilV, 7),  \* 56
  Nd("Print", "", 62, 0, 0, <<>>, <<>>, NilV, 7),  \* 57
  Nd("VarExpr", "two", 0, 0, 0, <<>>, <<>>, NilV, 7),  \* 58
  Nd("VarExpr", "p", 0, 0, 0, <<>>, <<>>, NilV, 7),  \* 59
  Nd("Literal", "", 0, 0, 0, <<>>, <<>>, NumV(1), 7),  \* 60
  Nd("Call", "", 59, 0, 0, <<60>>, <<>>, NilV, 7),  \* 61
  Nd("Call", "", 58, 0, 0, <<61>>, <<>>, NilV, 7),  \* 62
  Nd("Expression", "", 64, 0, 0, <<>>, <<>>, NilV, 7),  \* 63
  Nd("Literal", "", 0, 0, 0, <<>>, <<>>, NilV, 7),  \* 64
  Nd("If", "", 68, 69, 83, <<>>, <<>>, NilV, 8),  \* 65
  Nd("VarExpr", "n", 0, 0, 0, <<>>, <<>>, NilV, 8),  \* 66
  Nd("Literal", "", 0, 0, 0, <<>>, <<>>, NumV(3), 8),  \* 67
  Nd("Binary", "EqualEqual", 66, 67, 0, <<>>, <<>>, NilV, 8),  \* 68
  Nd("Print", "", 82, 0, 0, <<>>, <<>>, NilV, 8),  \* 69
  Nd("VarExpr", "pick", 0, 0, 0, <<>>, <<>>, NilV, 8),  \* 70
  Nd("Literal", "", 0, 0, 0, <<>>, <<>>, StrV("c"), 8),  \* 71
  Nd("Call", "", 70, 0, 0, <<71>>, <<>>, NilV, 8),  \* 72
  Nd("VarExpr", "p", 0, 0, 0, <<>>, <<>>, NilV, 8),  \* 73
  Nd("Literal", "", 0, 0, 0, <<>>, <<>>, NumV(1), 8),  \* 74
  Nd("Call", "", 73, 0, 0, <<74>>, <<>>, NilV, 8),  \* 75
  Nd("VarExpr", "p", 0, 0, 0, <<>>, <<>>, NilV, 8),  \* 76
  Nd("Literal", "", 0, 0, 0, <<>>, <<>>, NumV(2), 8),  \* 77
  Nd("Call", "", 76, 0, 0, <<77>>, <<>>, NilV, 8),  \* 78
  Nd("VarExpr", "p", 0, 0, 0, <<>>, <<>>, NilV, 8),  \* 79
  Nd("Literal", "", 0, 0, 0, <<>>, <<>>, NumV(3), 8),  \* 80
  Nd("Call", "", 79, 0, 0, <<80>>, <<>>, NilV, 8),  \* 81
  Nd("Call", "", 72, 0, 0, <<75, 78, 81>>, <<>>, NilV, 8),  \* 82
  Nd("Expression", "", 84, 0, 0, <<>>, <<>>, NilV, 8),  \* 83
  Nd("Literal", "", 0, 0, 0, <<>>, <<>>, NilV, 8),  \* 84
  Nd("Print", "", 86, 0, 0, <<>>, <<>>, NilV, 9),  \* 85
  Nd("Literal", "", 0, 0, 0, <<>>, <<>>, StrV("end"), 9)  \* 86
  >>

(* classes with an init method, called with as many arguments as init has parameters
     class Greeter { init() { print "init"; } }
     var g = Greeter();
     print "made";
     class Point { init(x) { print x; } }
     var p = Point($N);
     print "end";
*)
ProgInit ==
  <<
  Nd("Program", "", 0, 0, 0, <<2, 7, 10, 12, 17, 21>>, <<>>, NilV, 0),  \* 1
  Nd("Class", "Greeter", 0, 0, 0, <<3>>, <<>>, NilV, 1),  \* 2
  Nd("Function", "init", 4, 0, 0, <<>>, <<>>, NilV, 1),  \* 3
  Nd("Block", "", 0, 0, 0, <<5>>, <<>>, NilV, 1),  \* 4
  Nd("Print", "", 6, 0, 0, <<>>, <<>>, NilV, 1),  \* 5
  Nd("Literal", "", 0, 0, 0, <<>>, <<>>, StrV("init"), 1),  \* 6
  Nd("Var", "g", 9, 0, 0, <<>>, <<>>, NilV, 2),  \* 7
  Nd("VarExpr", "Greeter", 0, 0, 0, <<>>, <<>>, NilV, 2),  \* 8
  Nd("Call", "", 8, 0, 0, <<>>, <<>>, NilV, 2),  \* 9
  Nd("Print", "", 11, 0, 0, <<>>, <<>>, NilV, 3),  \* 10
  Nd("Literal", "", 0, 0, 0, <<>>, <<>>, StrV("made"), 3),  \* 11
  Nd("Class", "Point", 0, 0, 0, <<13>>, <<>>, NilV, 4),  \* 12
  Nd("Function", "init", 14, 0, 0, <<>>, <<"x">>, NilV, 4),  \* 13
  Nd("Block", "", 0, 0, 0, <<15>>, <<>>, NilV, 4),  \* 14
  Nd("Print", "", 16, 0, 0, <<>>, <<>>, NilV, 4),  \* 15
  Nd("VarExpr", "x", 0, 0, 0, <<>>, <<>>, NilV, 4),  \* 16
  Nd("Var", "p", 20, 0, 0, <<>>, <<>>, NilV, 5),  \* 17
  Nd("VarExpr", "Point", 0, 0, 0, <<>>, <<>>, NilV, 5),  \* 18
  Nd("Literal", "N", 0, 0, 0, <<>>, <<>>, NumV(0), 5),  \* 19
  Nd("Call", "", 18, 0, 0, <<19>>, <<>>, NilV, 5),  \* 20
  Nd("Print", "", 22, 0, 0, <<>>, <<>>, NilV, 6),  \* 21
  Nd("Literal", "", 0, 0, 0, <<>>, <<>>, StrV("end"), 6)  \* 22
  >>

(* a field written through one variable and read through another
     class Box { }
     var a = Box();
     var b = Box();
     var same = a;
     a.val = $N;
     print same.val;
     print a.val;
     print b.val;
*)
ProgField ==
  <<
  Nd("Program", "", 0, 0, 0, <<2, 3, 6, 9, 11, 15, 18, 21>>, <<>>, NilV, 0),  \* 1
  Nd("Class", "Box", 0, 0, 0, <<>>, <<>>, NilV, 1),  \* 2
  Nd("Var", "a", 5, 0, 0, <<>>, <<>>, NilV, 2),  \* 3
  Nd("VarExpr", "Box", 0, 0, 0, <<>>, <<>>, NilV, 2),  \* 4
  Nd("Call", "", 4, 0, 0, <<>>, <<>>, NilV, 2),  \* 5
  Nd("Var", "b", 8, 0, 0, <<>>, <<>>, NilV, 3),  \* 6
  Nd("VarExpr", "Box", 0, 0, 0, <<>>, <<>>, NilV, 3),  \* 7
  Nd("Call", "", 7, 0, 0, <<>>, <<>>, NilV, 3),  \* 8
  Nd("Var", "same", 10, 0, 0, <<>>, <<>>, NilV, 4),  \* 9
  Nd("VarExpr", "a", 0, 0, 0, <<>>, <<>>, NilV, 4),  \* 10
  Nd("Expression", "", 13, 0, 0, <<>>, <<>>, NilV, 5),  \* 11
  Nd("VarExpr", "a", 0, 0, 0, <<>>, <<>>, NilV, 5),  \* 12
  Nd("Set", "val", 12, 14, 0, <<>>, <<>>, NilV, 5),  \* 13
  Nd("Literal", "N", 0, 0, 0, <<>>, <<>>, NumV(0), 5),  \* 14
  Nd("Print", "", 17, 0, 0, <<>>, <<>>, NilV, 6),  \* 15
  Nd("VarExpr", "same", 0, 0, 0, <<>>, <<>>, NilV, 6),  \* 16
  Nd("Get", "val", 16, 0, 0, <<>>, <<>>, NilV, 6),  \* 17
  Nd("Print", "", 20, 0, 0, <<>>, <<>>, NilV, 7),  \* 18
  Nd("VarExpr", "a", 0, 0, 0, <<>>, <<>>, NilV, 7),  \* 19
  Nd("Get", "val", 19, 0, 0, <<>>, <<>>, NilV, 7),  \* 20
  Nd("Print", "", 23, 0, 0, <<>>, <<>>, NilV, 8),  \* 21
  Nd("VarExpr", "b", 0, 0, 0, <<>>, <<>>, NilV, 8),  \* 22
  Nd("Get", "val", 22, 0, 0, <<>>, <<>>, NilV, 8)  \* 23
  >>

(* tests::test_block_scope, with an assignment to the block-local
     var a = "global";
     var n = 0;
     {
       var a = "local";
       a = "changed";
       var only = $N;
       n = only;
       print a;
     }
     print a;
     print n;
     print only;
*)
ProgBlockScope ==
  <<
  Nd("Program", "", 0, 0, 0, <<2, 4, 6, 19, 21, 23>>, <<>>, NilV, 0),  \* 1
  Nd("Var", "a", 3, 0, 0, <<>>, <<>>, NilV, 1),  \* 2
  Nd("Literal", "", 0, 0, 0, <<>>, <<>>, StrV("global"), 1),  \* 3
  Nd("Var", "n", 5, 0, 0, <<>>, <<>>, NilV, 2),  \* 4
  Nd("Literal", "", 0, 0, 0, <<>>, <<>>, NumV(0), 2),  \* 5
  Nd("Block", "", 0, 0, 0, <<7, 9, 12, 14, 17>>, <<>>, NilV, 3),  \* 6
  Nd("Var", "a", 8, 0, 0, <<>>, <<>>, NilV, 4),  \* 7
  Nd("Literal", "", 0, 0, 0, <<>>, <<>>, StrV("local"), 4),  \* 8
  Nd("Expression", "", 10, 0, 0, <<>>, <<>>, NilV, 5),  \* 9
  Nd("Assign", "a", 11, 0, 0, <<>>, <<>>, NilV, 5),  \* 10
  Nd("Literal", "", 0, 0, 0, <<>>, <<>>, StrV("changed"), 5),  \* 11
  Nd("Var", "only", 13, 0, 0, <<>>, <<>>, NilV, 6),  \* 12
  Nd("Literal", "N", 0, 0, 0, <<>>, <<>>, NumV(0), 6),  \* 13
  Nd("Expression", "", 15, 0, 0, <<>>, <<>>, NilV, 7),  \* 14
  Nd("Assign", "n", 16, 0, 0, <<>>, <<>>, NilV, 7),  \* 15
  Nd("VarExpr", "only", 0, 0, 0, <<>>, <<>>, NilV, 7),  \* 16
  Nd("Print", "", 18, 0, 0, <<>>, <<>>, NilV, 8),  \* 17
  Nd("VarExpr", "a", 0, 0, 0, <<>>, <<>>, NilV, 8),  \* 18
  Nd("Print", "", 20, 0, 0, <<>>, <<>>, NilV, 10),  \* 19
  Nd("VarExpr", "a", 0, 0, 0, <<>>, <<>>, NilV, 10),  \* 20
  Nd("Print", "", 22, 0, 0, <<>>, <<>>, NilV, 11),  \* 21
  Nd("VarExpr", "n", 0, 0, 0, <<>>, <<>>, NilV, 11),  \* 22
  Nd("Print", "", 24, 0, 0, <<>>, <<>>, NilV, 12),  \* 23
  Nd("VarExpr", "only", 0, 0, 0, <<>>, <<>>, NilV, 12)  \* 24
  >>

(* a subclass whose method calls the method it overrides through super
     class A {
       greet(x) { print "A"; print x; }
       other() { print "other"; }
     }
     class B < A {
       greet(x) { super.greet(x); print "B"; }
     }
     B().greet($N);
     print "end";
*)
ProgSuper ==
  <<
  Nd("Program", "", 0, 0, 0, <<2, 13, 23, 29>>, <<>>, NilV, 0),  \* 1
  Nd("Class", "A", 0, 0, 0, <<3, 9>>, <<>>, NilV, 1),  \* 2
  Nd("Function", "greet", 4, 0, 0, <<>>, <<"x">>, NilV, 2),  \* 3
  Nd("Block", "", 0, 0, 0, <<5, 7>>, <<>>, NilV, 2),  \* 4
  Nd("Print", "", 6, 0, 0, <<>>, <<>>, NilV, 2),  \* 5
  Nd("Literal", "", 0, 0, 0, <<>>, <<>>, StrV("A"), 2),  \* 6
  Nd("Print", "", 8, 0, 0, <<>>, <<>>, NilV, 2),  \* 7
  Nd("VarExpr", "x", 0, 0, 0, <<>>, <<>>, NilV, 2),  \* 8
  Nd("Function", "other", 10, 0, 0, <<>>, <<>>, NilV, 3),  \* 9
  Nd("Block", "", 0, 0, 0, <<11>>, <<>>, NilV, 3),  \* 10
  Nd("Print", "", 12, 0, 0, <<>>, <<>>, NilV, 3),  \* 11
  Nd("Literal", "", 0, 0, 0, <<>>, <<>>, StrV("other"), 3),  \* 12
  Nd("Class", "B", 14, 0, 0, <<15>>, <<>>, NilV, 5),  \* 13
  Nd("VarExpr", "A", 0, 0, 0, <<>>, <<>>, NilV, 5),  \* 14
  Nd("Function", "greet", 16, 0, 0, <<>>, <<"x">>, NilV, 6),  \* 15
  Nd("Block", "", 0, 0, 0, <<17, 21>>, <<>>, NilV, 6),  \* 16
  Nd("Expression", "", 20, 0, 0, <<>>, <<>>, NilV, 6),  \* 17
  Nd("Super", "greet", 0, 0, 0, <<>>, <<>>, NilV, 6),  \* 18
  Nd("VarExpr", "x", 0, 0, 0, <<>>, <<>>, NilV, 6),  \* 19
  Nd("Call", "", 18, 0, 0, <<19>>, <<>>, NilV, 6),  \* 20
  Nd("Print", "", 22, 0, 0, <<>>, <<>>, NilV, 6),  \* 21
  Nd("Literal", "", 0, 0, 0, <<>>, <<>>, StrV("B"), 6),  \* 22
  Nd("Expression", "", 28, 0, 0, <<>>, <<>>, NilV, 8),  \* 23
  Nd("VarExpr", "B", 0, 0, 0, <<>>, <<>>, NilV, 8),  \* 24
  Nd("Call", "", 24, 0, 0, <<>>, <<>>, NilV, 8),  \* 25
  Nd("Get", "greet", 25, 0, 0, <<>>, <<>>, NilV, 8),  \* 26
  Nd("Literal", "N", 0, 0, 0, <<>>, <<>>, NumV(0), 8),  \* 27
  Nd("Call", "", 26, 0, 0, <<27>>, <<>>, NilV, 8),  \* 28
  Nd("Print", "", 30, 0, 0, <<>>, <<>>, NilV, 9),  \* 29
  Nd("Literal", "", 0, 0, 0, <<>>, <<>>, StrV("end"), 9)  \* 30
  >>

ResolverPrograms ==
  <<
(* 1, ReturnInBlock: tests::test_top_level_return_error, in a block
     { return 1; }
*)
  <<
  Nd("Program", "", 0, 0, 0, <<2>>, <<>>, NilV, 0),  \* 1
  Nd("Block", "", 0, 0, 0, <<3>>, <<>>, NilV, 1),  \* 2
  Nd("Return", "value", 4, 0, 0, <<>>, <<>>, NilV, 1),  \* 3
  Nd("Literal", "", 0, 0, 0, <<>>, <<>>, NumV(1), 1)  \* 4
  >>,
(* 2, ReturnInIf: a top-level return as an if branch
     if (true) return 1;
*)
  <<
  Nd("Program", "", 0, 0, 0, <<2>>, <<>>, NilV, 0),  \* 1
  Nd("If", "", 3, 4, 6, <<>>, <<>>, NilV, 1),  \* 2
  Nd("Literal", "", 0, 0, 0, <<>>, <<>>, BoolV(TRUE), 1),  \* 3
  Nd("Return", "value", 5, 0, 0, <<>>, <<>>, NilV, 1),  \* 4
  Nd("Literal", "", 0, 0, 0, <<>>, <<>>, NumV(1), 1),  \* 5
  Nd("Expression", "", 7, 0, 0, <<>>, <<>>, NilV, 1),  \* 6
  Nd("Literal", "", 0, 0, 0, <<>>, <<>>, NilV, 1)  \* 7
  >>,
(* 3, ReturnInWhile: a top-level return in a while body
     while (false) { return; }
*)
  <<
  Nd("Program", "", 0, 0, 0, <<2>>, <<>>, NilV, 0),  \* 1
  Nd("While", "", 3, 4, 0, <<>>, <<>>, NilV, 1),  \* 2
  Nd("Literal", "", 0, 0, 0, <<>>, <<>>, BoolV(FALSE), 1),  \* 3
  Nd("Block", "", 0, 0, 0, <<5>>, <<>>, NilV, 1),  \* 4
  Nd("Return", "", 6, 0, 0, <<>>, <<>>, NilV, 1),  \* 5
  Nd("Literal", "", 0, 0, 0, <<>>, <<>>, NilV, 1)  \* 6
  >>,
(* 4, ReturnAfterFunction: a top-level return after a function declaration
     fun f() { return 1; }
     return 2;
*)
  <<
  Nd("Program", "", 0, 0, 0, <<2, 6>>, <<>>, NilV, 0),  \* 1
  Nd("Function", "f", 3, 0, 0, <<>>, <<>>, NilV, 1),  \* 2
  Nd("Block", "", 0, 0, 0, <<4>>, <<>>, NilV, 1),  \* 3
  Nd("Return", "value", 5, 0, 0, <<>>, <<>>, NilV, 1),  \* 4
  Nd("Literal", "", 0, 0, 0, <<>>, <<>>, NumV(1), 1),  \* 5
  Nd("Return", "value", 7, 0, 0, <<>>, <<>>, NilV, 2),  \* 6
  Nd("Literal", "", 0, 0, 0, <<>>, <<>>, NumV(2), 2)  \* 7
  >>,
(* 5, ReturnsInFunctions: returns nested in a function and in a method
     fun f() {
       if (true) { while (false) return 1; }
       return;
     }
     class A { m() { return 1; } }
*)
  <<
  Nd("Program", "", 0, 0, 0, <<2, 15>>, <<>>, NilV, 0),  \* 1
  Nd("Function", "f", 3, 0, 0, <<>>, <<>>, NilV, 1),  \* 2
  Nd("Block", "", 0, 0, 0, <<4, 13>>, <<>>, NilV, 1),  \* 3
  Nd("If", "", 5, 6, 11, <<>>, <<>>, NilV, 2),  \* 4
  Nd("Literal", "", 0, 0, 0, <<>>, <<>>, BoolV(TRUE), 2),  \* 5
  Nd("Block", "", 0, 0, 0, <<7>>, <<>>, NilV, 2),  \* 6
  Nd("While", "", 8, 9, 0, <<>>, <<>>, NilV, 2),  \* 7
  Nd("Literal", "", 0, 0, 0, <<>>, <<>>, BoolV(FALSE), 2),  \* 8
  Nd("Return", "value", 10, 0, 0, <<>>, <<>>, NilV, 2),  \* 9
  Nd("Literal", "", 0, 0, 0, <<>>, <<>>, NumV(1), 2),  \* 10
  Nd("Expression", "", 12, 0, 0, <<>>, <<>>, NilV, 2),  \* 11
  Nd("Literal", "", 0, 0, 0, <<>>, <<>>, NilV, 2),  \* 12
  Nd("Return", "", 14, 0, 0, <<>>, <<>>, NilV, 3),  \* 13
  Nd("Literal", "", 0, 0, 0, <<>>, <<>>, NilV, 3),  \* 14
  Nd("Class", "A", 0, 0, 0, <<16>>, <<>>, NilV, 5),  \* 15
  Nd("Function", "m", 17, 0, 0, <<>>, <<>>, NilV, 5),  \* 16
  Nd("Block", "", 0, 0, 0, <<18>>, <<>>, NilV, 5),  \* 17
  Nd("Return", "value", 19, 0, 0, <<>>, <<>>, NilV, 5),  \* 18
  Nd("Literal", "", 0, 0, 0, <<>>, <<>>, NumV(1), 5)  \* 19
  >>,
(* 6, VarTwiceInBlock: tests::test_var_redeclaration_error
     { var a = 1; var a = 2; }
*)
  <<
  Nd("Program", "", 0, 0, 0, <<2>>, <<>>, NilV, 0),  \* 1
  Nd("Block", "", 0, 0, 0, <<3, 5>>, <<>>, NilV, 1),  \* 2
  Nd("Var", "a", 4, 0, 0, <<>>, <<>>, NilV, 1),  \* 3
  Nd("Literal", "", 0, 0, 0, <<>>, <<>>, NumV(1), 1),  \* 4
  Nd("Var", "a", 6, 0, 0, <<>>, <<>>, NilV, 1),  \* 5
  Nd("Literal", "", 0, 0, 0, <<>>, <<>>, NumV(2), 1)  \* 6
  >>,
(* 7, VarTwiceInBody: two declarations of one name in a function body
     fun f() { var a; var a; }
*)
  <<
  Nd("Program", "", 0, 0, 0, <<2>>, <<>>, NilV, 0),  \* 1
  Nd("Function", "f", 3, 0, 0, <<>>, <<>>, NilV, 1),  \* 2
  Nd("Block", "", 0, 0, 0, <<4, 6>>, <<>>, NilV, 1),  \* 3
  Nd("Var", "a", 5, 0, 0, <<>>, <<>>, NilV, 1),  \* 4
  Nd("Literal", "", 0, 0, 0, <<>>, <<>>, NilV, 1),  \* 5
  Nd("Var", "a", 7, 0, 0, <<>>, <<>>, NilV, 1),  \* 6
  Nd("Literal", "", 0, 0, 0, <<>>, <<>>, NilV, 1)  \* 7
  >>,
(* 8, FunTwiceInBlock: two functions of one name in a block
     { fun g() { } fun g() { } }
*)
  <<
  Nd("Program", "", 0, 0, 0, <<2>>, <<>>, NilV, 0),  \* 1
  Nd("Block", "", 0, 0, 0, <<3, 5>>, <<>>, NilV, 1),  \* 2
  Nd("Function", "g", 4, 0, 0, <<>>, <<>>, NilV, 1),  \* 3
  Nd("Block", "", 0, 0, 0, <<>>, <<>>, NilV, 1),  \* 4
  Nd("Function", "g", 6, 0, 0, <<>>, <<>>, NilV, 1),  \* 5
  Nd("Block", "", 0, 0, 0, <<>>, <<>>, NilV, 1)  \* 6
  >>,
(* 9, ParamTwice: a duplicated parameter name
     fun f(a, a) { }
*)
  <<
  Nd("Program", "", 0, 0, 0, <<2>>, <<>>, NilV, 0),  \* 1
  Nd("Function", "f", 3, 0, 0, <<>>, <<"a", "a">>, NilV, 1),  \* 2
  Nd("Block", "", 0, 0, 0, <<>>, <<>>, NilV, 1)  \* 3
  >>,
(* 10, Shadowing: redeclaration at global scope, shadowing in nested scopes
     var a = 1;
     var a = 2;
     { var a = 3; { var a = 4; } }
     fun f(b) { var c; { var c; var b; } }
*)
  <<
  Nd("Program", "", 0, 0, 0, <<2, 4, 6, 12>>, <<>>, NilV, 0),  \* 1
  Nd("Var", "a", 3, 0, 0, <<>>, <<>>, NilV, 1),  \* 2
  Nd("Literal", "", 0, 0, 0, <<>>, <<>>, NumV(1), 1),  \* 3
  Nd("Var", "a", 5, 0, 0, <<>>, <<>>, NilV, 2),  \* 4
  Nd("Literal", "", 0, 0, 0, <<>>, <<>>, NumV(2), 2),  \* 5
  Nd("Block", "", 0, 0, 0, <<7, 9>>, <<>>, NilV, 3),  \* 6
  Nd("Var", "a", 8, 0, 0, <<>>, <<>>, NilV, 3),  \* 7
  Nd("Literal", "", 0, 0, 0, <<>>, <<>>, NumV(3), 3),  \* 8
  Nd("Block", "", 0, 0, 0, <<10>>, <<>>, NilV, 3),  \* 9
  Nd("Var", "a", 11, 0, 0, <<>>, <<>>, NilV, 3),  \* 10
  Nd("Literal", "", 0, 0, 0, <<>>, <<>>, NumV(4), 3),  \* 11
  Nd("Function", "f", 13, 0, 0, <<>>, <<"b">>, NilV, 4),  \* 12
  Nd("Block", "", 0, 0, 0, <<14, 16>>, <<>>, NilV, 4),  \* 13
  Nd("Var", "c", 15, 0, 0, <<>>, <<>>, NilV, 4),  \* 14
  Nd("Literal", "", 0, 0, 0, <<>>, <<>>, NilV, 4),  \* 15
  Nd("Block", "", 0, 0, 0, <<17, 19>>, <<>>, NilV, 4),  \* 16
  Nd("Var", "c", 18, 0, 0, <<>>, <<>>, NilV, 4),  \* 17
  Nd("Literal", "", 0, 0, 0, <<>>, <<>>, NilV, 4),  \* 18
  Nd("Var", "b", 20, 0, 0, <<>>, <<>>, NilV, 4),  \* 19
  Nd("Literal", "", 0, 0, 0, <<>>, <<>>, NilV, 4)  \* 20
  >>,
(* 11, InitReturnsValue: return with a value in init
     class A { init() { return 1; } }
*)
  <<
  Nd("Program", "", 0, 0, 0, <<2>>, <<>>, NilV, 0),  \* 1
  Nd("Class", "A", 0, 0, 0, <<3>>, <<>>, NilV, 1),  \* 2
  Nd("Function", "init", 4, 0, 0, <<>>, <<>>, NilV, 1),  \* 3
  Nd("Block", "", 0, 0, 0, <<5>>, <<>>, NilV, 1),  \* 4
  Nd("Return", "value", 6, 0, 0, <<>>, <<>>, NilV, 1),  \* 5
  Nd("Literal", "", 0, 0, 0, <<>>, <<>>, NumV(1), 1)  \* 6
  >>,
(* 12, InitReturnsNothing: return without a value in init
     class A { init() { return; } }
*)
  <<
  Nd("Program", "", 0, 0, 0, <<2>>, <<>>, NilV, 0),  \* 1
  Nd("Class", "A", 0, 0, 0, <<3>>, <<>>, NilV, 1),  \* 2
  Nd("Function", "init", 4, 0, 0, <<>>, <<>>, NilV, 1),  \* 3
  Nd("Block", "", 0, 0, 0, <<5>>, <<>>, NilV, 1),  \* 4
  Nd("Return", "", 6, 0, 0, <<>>, <<>>, NilV, 1),  \* 5
  Nd("Literal", "", 0, 0, 0, <<>>, <<>>, NilV, 1)  \* 6
  >>,
(* 13, InitNestedReturn: return with a value in a function nested in init, and in another method
     class A {
       init() { fun inner() { return 1; } }
       other() { return 2; }
     }
*)
  <<
  Nd("Program", "", 0, 0, 0, <<2>>, <<>>, NilV, 0),  \* 1
  Nd("Class", "A", 0, 0, 0, <<3, 9>>, <<>>, NilV, 1),  \* 2
  Nd("Function", "init", 4, 0, 0, <<>>, <<>>, NilV, 2),  \* 3
  Nd("Block", "", 0, 0, 0, <<5>>, <<>>, NilV, 2),  \* 4
  Nd("Function", "inner", 6, 0, 0, <<>>, <<>>, NilV, 2),  \* 5
  Nd("Block", "", 0, 0, 0, <<7>>, <<>>, NilV, 2),  \* 6
  Nd("Return", "value", 8, 0, 0, <<>>, <<>>, NilV, 2),  \* 7
  Nd("Literal", "", 0, 0, 0, <<>>, <<>>, NumV(1), 2),  \* 8
  Nd("Function", "other", 10, 0, 0, <<>>, <<>>, NilV, 3),  \* 9
  Nd("Block", "", 0, 0, 0, <<11>>, <<>>, NilV, 3),  \* 10
  Nd("Return", "value", 12, 0, 0, <<>>, <<>>, NilV, 3),  \* 11
  Nd("Literal", "", 0, 0, 0, <<>>, <<>>, NumV(2), 3)  \* 12
  >>,
(* 14, InitReturnsNil: return with the value nil in init
     class A { init() { return nil; } }
*)
  <<
  Nd("Program", "", 0, 0, 0, <<2>>, <<>>, NilV, 0),  \* 1
  Nd("Class", "A", 0, 0, 0, <<3>>, <<>>, NilV, 1),  \* 2
  Nd("Function", "init", 4, 0, 0, <<>>, <<>>, NilV, 1),  \* 3
  Nd("Block", "", 0, 0, 0, <<5>>, <<>>, NilV, 1),  \* 4
  Nd("Return", "value", 6, 0, 0, <<>>, <<>>, NilV, 1),  \* 5
  Nd("Literal", "", 0, 0, 0, <<>>, <<>>, NilV, 1)  \* 6
  >>,
(* 15, SelfReadInBlock: a block-local read in its own initializer
     { var a = a; }
*)
  <<
  Nd("Program", "", 0, 0, 0, <<2>>, <<>>, NilV, 0),  \* 1
  Nd("Block", "", 0, 0, 0, <<3>>, <<>>, NilV, 1),  \* 2
  Nd("Var", "a", 4, 0, 0, <<>>, <<>>, NilV, 1),  \* 3
  Nd("VarExpr", "a", 0, 0, 0, <<>>, <<>>, NilV, 1)  \* 4
  >>,
(* 16, SelfReadShadowing: the same when an outer scope declares the name, the read nested in the initializer
     var a = 1;
     { var a = (a + 1); }
*)
  <<
  Nd("Program", "", 0, 0, 0, <<2, 4>>, <<>>, NilV, 0),  \* 1
  Nd("Var", "a", 3, 0, 0, <<>>, <<>>, NilV, 1),  \* 2
  Nd("Literal", "", 0, 0, 0, <<>>, <<>>, NumV(1), 1),  \* 3
  Nd("Block", "", 0, 0, 0, <<5>>, <<>>, NilV, 2),  \* 4
  Nd("Var", "a", 6, 0, 0, <<>>, <<>>, NilV, 2),  \* 5
  Nd("Grouping", "", 9, 0, 0, <<>>, <<>>, NilV, 2),  \* 6
  Nd("VarExpr", "a", 0, 0, 0, <<>>, <<>>, NilV, 2),  \* 7
  Nd("Literal", "", 0, 0, 0, <<>>, <<>>, NumV(1), 2),  \* 8
  Nd("Binary", "Plus", 7, 8, 0, <<>>, <<>>, NilV, 2)  \* 9
  >>,
(* 17, SelfReadGlobal: a global read in its own initializer
     var a = a;
     print "next";
*)
  <<
  Nd("Program", "", 0, 0, 0, <<2, 4>>, <<>>, NilV, 0),  \* 1
  Nd("Var", "a", 3, 0, 0, <<>>, <<>>, NilV, 1),  \* 2
  Nd("VarExpr", "a", 0, 0, 0, <<>>, <<>>, NilV, 1),  \* 3
  Nd("Print", "", 5, 0, 0, <<>>, <<>>, NilV, 2),  \* 4
  Nd("Literal", "", 0, 0, 0, <<>>, <<>>, StrV("next"), 2)  \* 5
  >>
  >>

Programs ==
  <<ProgCounter, ProgFib, ProgReturn, ProgShadow,
    ProgLateLocal, ProgSelfAssign, ProgMethod, ProgLocalClass,
    ProgFor, ProgErrors, ProgSetNil, ProgLogical,
    ProgCalls, ProgInit, ProgField, ProgBlockScope,
    ProgSuper>>
    \o ResolverPrograms
\* END PROGRAMS

(***************************************************************************)
(* The state.                                                             *)
(*   prog, input  the program run (its table of nodes, empty when none is *)
(*                run) and the number its literal $N stands for           *)
(*   status       parsed, rejected (the resolver returned an error),      *)
(*                running, done (interpret returned Ok), error (interpret *)
(*                returned Err), exited (report_and_exit ended the        *)
(*                process), panic                                         *)
(*   depth        the depths the resolver wrote into the nodes            *)
(*   env          Interpreter.env                                         *)
(*   stack, res   the active handler calls and the last returned result   *)
(*   out          the values printed                                      *)
(*   acc          not in the code: the variable access the last step made *)
(*   scanner      Scanner { source, tokens, start, current, line }, with   *)
(*                reported (the errors it has reported, in order) and     *)
(*                state, which are not in the code                        *)
(*   parser       Parser { tokens, current }, with err (the Err a parse   *)
(*                function returned with), statements (those parse has    *)
(*                pushed), reported and state, which are not in the code  *)
(*   opIn, opOut  not in the code: the operands and the result of one     *)
(*                application of is_truthy, binary_expr or unary_expr     *)
(***************************************************************************)
VARIABLES prog, input, status, depth, env, stack, res, out, acc, opIn, opOut, scanner, parser

vars == <<prog, input, status, depth, env, stack, res, out, acc, opIn, opOut, scanner, parser>>

\* The statements handed to the resolver and the interpreter.
P == prog

\* A frame: the node whose handler runs, how far it has come, and its locals:
\* v, vs (values it holds), prev (the previous of FunStmt::call). site is not in
\* the code: the current scope id when the handler was entered.
Frame(node, site) ==
  [node |-> node, pc |-> 0, v |-> NilV, vs |-> <<>>, prev |-> 0, site |-> site]

Top == stack[Len(stack)]

Nod == P[Top.node]

NoAcc == [node |-> 0, scope |-> None, bound |-> FALSE, curr |-> 0]

NoOp == [fn |-> "", op |-> "", l |-> NilV, r |-> NilV, line |-> 0]

\* No source text is being scanned or parsed.
NoScanner ==
  [source |-> <<>>, tokens |-> <<>>, start |-> 0, current |-> 0, line |-> 1,
   reported |-> <<>>, state |-> "", crate |-> ""]

NoParser == [tokens |-> <<>>, current |-> 0, err |-> "", statements |-> <<>>,
             reported |-> <<>>, state |-> ""]

\* Interpreter::new
NewEnv ==
  [nodes |-> <<EnvNode(Insert(EmptyMap, "clock", NativeV(0)), None, 1)>>, curr_node |-> 0]

Init ==
  /\ \E i \in 1..Len(Programs) : prog = Programs[i]
  /\ input \in 0..MaxInput
  /\ status = "parsed"
  /\ depth = <<>>
  /\ env = NewEnv
  /\ stack = <<>>
  /\ res = Empty
  /\ out = <<>>
  /\ acc = NoAcc
  /\ opIn = NoOp
  /\ opOut = Empty
  /\ scanner = NoScanner
  /\ parser = NoParser

Running(kinds) ==
  /\ status = "running"
  /\ stack # <<>>
  /\ res.kind \notin {"Err", "Panic"}
  /\ Nod.k \in kinds

\* The handler evaluates or executes a child and goes on afterwards.
Descend(child) ==
  /\ stack' = Append([stack EXCEPT ![Len(stack)].pc = @ + 1], Frame(child, env.curr_node))
  /\ res' = Empty

\* The handler returns r to its caller.
Finish(r) ==
  /\ stack' = SubSeq(stack, 1, Len(stack) - 1)
  /\ res' = r

Pure == UNCHANGED <<prog, input, status, depth, opIn, opOut, scanner, parser>>

\* exec_src: the resolver runs over the parsed statements; interpret starts
\* when it returned Ok.
resolve_stmts ==
  /\ status = "parsed"
  /\ LET st == ResolveStmts(P)
     IN /\ status' = IF st.err = "" THEN "running" ELSE "rejected"
        /\ depth' = st.depth
        /\ stack' = IF st.err = "" THEN <<Frame(1, 0)>> ELSE <<>>
        /\ res' = IF st.err = "" THEN Empty ELSE Err(st.err, st.line)
  /\ UNCHANGED <<prog, input, env, out, acc, opIn, opOut, scanner, parser>>

\* interpret: the top-level statements in order; their ExecResult is dropped.
interpret ==
  /\ Running({"Program"})
  /\ IF Top.pc < Len(Nod.kids)
       THEN Descend(Nod.kids[Top.pc + 1]) /\ UNCHANGED status
       ELSE stack' = <<>> /\ res' = Empty /\ status' = "done"
  /\ acc' = NoAcc
  /\ UNCHANGED <<prog, input, depth, env, out, opIn, opOut, scanner, parser>>

expr_statement ==
  /\ Running({"Expression"})
  /\ IF Top.pc = 0 THEN Descend(Nod.a) ELSE Finish(Normal)
  /\ acc' = NoAcc
  /\ Pure /\ UNCHANGED <<env, out>>

print_statement ==
  /\ Running({"Print"})
  /\ IF Top.pc = 0
       THEN Descend(Nod.a) /\ UNCHANGED out
       ELSE Finish(Normal) /\ out' = Append(out, res.val)
  /\ acc' = NoAcc
  /\ Pure /\ UNCHANGED env

var_statement ==
  /\ Running({"Var"})
  /\ IF Top.pc = 0
       THEN Descend(Nod.a) /\ UNCHANGED env
       ELSE Finish(Normal) /\ env' = Define(env, Nod.name, res.val)
  /\ acc' = NoAcc
  /\ Pure /\ UNCHANGED out

\* pc 0: push_node; pc i > 0: statement i - 1 has returned, statement i is next.
execute_block ==
  /\ Running({"Block"})
  /\ IF Top.pc = 0
       THEN /\ env' = PushNode(env, Top.node)
            /\ stack' = [stack EXCEPT ![Len(stack)].pc = 1]
            /\ res' = Empty
     ELSE IF res.kind = "Return"
       THEN Finish(res) /\ env' = PopNode(env)
     ELSE IF Top.pc <= Len(Nod.kids)
       THEN Descend(Nod.kids[Top.pc]) /\ UNCHANGED env
     ELSE Finish(Normal) /\ env' = PopNode(env)
  /\ acc' = NoAcc
  /\ Pure /\ UNCHANGED out

if_statement ==
  /\ Running({"If"})
  /\ IF Top.pc = 0 THEN Descend(Nod.a)
     ELSE IF Top.pc = 1
       THEN IF IsTruthy(res.val) THEN Descend(Nod.b)
            ELSE IF ~IsNilStmt(P, P[Nod.c]) THEN Descend(Nod.c)
            ELSE Finish(Normal)
     ELSE Finish(res)
  /\ acc' = NoAcc
  /\ Pure /\ UNCHANGED <<env, out>>

\* pc 1: the condition is evaluated; pc 2: the body has returned.
while_statement ==
  /\ Running({"While"})
  /\ IF Top.pc = 0 THEN Descend(Nod.a)
     ELSE IF Top.pc = 1
       THEN IF IsTruthy(res.val) THEN Descend(Nod.b) ELSE Finish(Normal)
     ELSE IF res.kind = "Return" THEN Finish(res)
     ELSE /\ stack' = Append([stack EXCEPT ![Len(stack)].pc = 1],
                             Frame(Nod.a, env.curr_node))
          /\ res' = Empty
  /\ acc' = NoAcc
  /\ Pure /\ UNCHANGED <<env, out>>

fun_statement ==
  /\ Running({"Function"})
  /\ env' = Define(env, Nod.name, UserV(Top.node, env.curr_node))
  /\ Finish(Normal)
  /\ acc' = NoAcc
  /\ Pure /\ UNCHANGED out

return_statement ==
  /\ Running({"Return"})
  /\ IF Top.pc = 0
       THEN IF ~IsNilLiteral(P[Nod.a]) THEN Descend(Nod.a) ELSE Finish(Return(NilV))
       ELSE Finish(Return(res.val))
  /\ acc' = NoAcc
  /\ Pure /\ UNCHANGED <<env, out>>

class_statement ==
  /\ Running({"Class"})
  /\ Nod.a = 0
  /\ LET declared == Define(env, Nod.name, NilV)
         class == ClassV(Top.node, env.curr_node)
         assigned == Assign(declared, Nod.name, class, Nod.line)
     IN /\ env' = assigned.env
        /\ Finish(IF assigned.res.kind = "Err" THEN assigned.res ELSE Normal)
  /\ acc' = NoAcc
  /\ Pure /\ UNCHANGED out

\* A class statement with a superclass, after the specification. pc 1: the
\* superclass variable is evaluated and must hold a class; the methods close
\* over a new scope that holds super, which is left again before the class is
\* assigned to its name.
subclass_statement ==
  /\ Running({"Class"})
  /\ Nod.a # 0
  /\ IF Top.pc = 0 THEN Descend(Nod.a) /\ UNCHANGED env
     ELSE IF res.val.t # "Class"
       THEN Finish(Err("SuperclassMustBeAClass", Nod.line)) /\ UNCHANGED env
     ELSE LET declared == Define(env, Nod.name, NilV)
              scoped == PushClosure(declared, Insert(EmptyMap, "super", res.val),
                                    declared.curr_node, Top.node)
              class == ClassV(Top.node, scoped.curr_node)
              assigned == Assign(PopNode(scoped), Nod.name, class, Nod.line)
          IN /\ env' = assigned.env
             /\ Finish(IF assigned.res.kind = "Err" THEN assigned.res ELSE Normal)
  /\ acc' = NoAcc
  /\ Pure /\ UNCHANGED out

\* The values clock() may return.
ClockValues == {NumV(0), NumV(1)}

LitVal(nd) == IF nd.name = "N" THEN NumV(input) ELSE nd.lit

literal_expr ==
  /\ Running({"Literal"})
  /\ Finish(Ok(LitVal(Nod)))
  /\ acc' = NoAcc
  /\ Pure /\ UNCHANGED <<env, out>>

\* What an access of name at depth d touches: the scope, and whether the scope
\* bound the name before the access.
Access(node, d, name) ==
  LET id == IF d # None THEN Ancestor(env, d) ELSE 0
  IN [node |-> node, scope |-> id,
      bound |-> id # None /\ name \in DOMAIN At(env, id).values,
      curr |-> env.curr_node]

var_expr ==
  /\ Running({"VarExpr"})
  /\ LET dist == depth[Top.node]
     IN /\ Finish(IF dist # None
                    THEN GetAt(env, dist, Nod.name, Nod.line)
                    ELSE Get(env, Nod.name, Nod.line))
        /\ acc' = Access(Top.node, dist, Nod.name)
  /\ Pure /\ UNCHANGED <<env, out>>

this_expr ==
  /\ Running({"This"})
  /\ LET dist == depth[Top.node]
     IN /\ Finish(IF dist # None
                    THEN GetAt(env, dist, "this", Nod.line)
                    ELSE Err("UndefinedVariable", Nod.line))
        /\ acc' = Access(Top.node, dist, "this")
  /\ Pure /\ UNCHANGED <<env, out>>

\* A super expression, after the specification.
super_expr ==
  /\ Running({"Super"})
  /\ LET dist == depth[Top.node]
         r == SuperGet(P, env, dist, Nod.name, Nod.line)
     IN IF dist # None
          THEN env' = r.env /\ Finish(r.res)
          ELSE Finish(Err("UndefinedVariable", Nod.line)) /\ UNCHANGED env
  /\ acc' = NoAcc
  /\ Pure /\ UNCHANGED out

assign_expr ==
  /\ Running({"Assign"})
  /\ IF Top.pc = 0
       THEN Descend(Nod.a) /\ UNCHANGED env /\ acc' = NoAcc
       ELSE LET dist == depth[Top.node]
                r == IF dist # None
                       THEN AssignAt(env, dist, Nod.name, res.val)
                       ELSE Assign(env, Nod.name, res.val, Nod.line)
            IN /\ env' = r.env
               /\ Finish(r.res)
               /\ acc' = Access(Top.node, dist, Nod.name)
  /\ Pure /\ UNCHANGED out

grouping_expr ==
  /\ Running({"Grouping"})
  /\ IF Top.pc = 0 THEN Descend(Nod.a) ELSE Finish(res)
  /\ acc' = NoAcc
  /\ Pure /\ UNCHANGED <<env, out>>

unary_expr ==
  /\ Running({"Unary"})
  /\ IF Top.pc = 0 THEN Descend(Nod.a) ELSE Finish(UnaryOp(Nod.name, res.val, Nod.line))
  /\ acc' = NoAcc
  /\ Pure /\ UNCHANGED <<env, out>>

\* pc 1: the left operand is evaluated and kept in v; pc 2: the right one is.
binary_expr ==
  /\ Running({"Binary"})
  /\ IF Top.pc = 0 THEN Descend(Nod.a)
     ELSE IF Top.pc = 1
       THEN /\ stack' = Append([stack EXCEPT ![Len(stack)].pc = 2, ![Len(stack)].v = res.val],
                               Frame(Nod.b, env.curr_node))
            /\ res' = Empty
     ELSE Finish(BinaryOp(Nod.name, Top.v, res.val, Nod.line))
  /\ acc' = NoAcc
  /\ Pure /\ UNCHANGED <<env, out>>

logical_expr ==
  /\ Running({"Logical"})
  /\ IF Top.pc = 0 THEN Descend(Nod.a)
     ELSE IF Top.pc = 1
       THEN IF Nod.name = "Or"
              THEN IF IsTruthy(res.val) THEN Finish(res) ELSE Descend(Nod.b)
              ELSE IF ~IsTruthy(res.val) THEN Finish(res) ELSE Descend(Nod.b)
     ELSE Finish(res)
  /\ acc' = NoAcc
  /\ Pure /\ UNCHANGED <<env, out>>

\* pc 1: the callee is evaluated; pc i + 1: argument i is. With the last of them
\* the callable is checked and called: a native function and a class return at
\* once, FunStmt::call opens the scope of the parameters and executes the body.
call_expr ==
  /\ Running({"Call"})
  /\ Top.pc <= Len(Nod.kids) + 1
  /\ IF Top.pc = 0 THEN Descend(Nod.a) /\ UNCHANGED env
     ELSE LET callee == IF Top.pc = 1 THEN res.val ELSE Top.v
              arguments == IF Top.pc = 1 THEN <<>> ELSE Append(Top.vs, res.val)
              here == [Top EXCEPT !.v = callee, !.vs = arguments]
          IN IF Top.pc <= Len(Nod.kids)
               THEN /\ stack' = Append([stack EXCEPT ![Len(stack)] = [here EXCEPT !.pc = @ + 1]],
                                       Frame(Nod.kids[Top.pc], env.curr_node))
                    /\ res' = Empty
                    /\ UNCHANGED env
             ELSE IF callee.t \notin {"User", "Native", "Class"}
               THEN Finish(Err("NotCallable", Nod.line)) /\ UNCHANGED env
             ELSE IF Len(arguments) # Arity(P, callee)
               THEN Finish(Err("ArgumentCountMismatch", Nod.line)) /\ UNCHANGED env
             ELSE IF callee.t = "Native"
               THEN (\E t \in ClockValues : Finish(Ok(t))) /\ UNCHANGED env
             ELSE IF callee.t = "Class"
               THEN Finish(Ok(ClassDecCall(callee))) /\ UNCHANGED env
             ELSE /\ env' = FunStmtCallEnter(P, env, callee, arguments)
                  /\ stack' = Append([stack EXCEPT ![Len(stack)] =
                                        [here EXCEPT !.pc = @ + 1, !.prev = env.curr_node]],
                                     Frame(P[callee.n].a, env'.curr_node))
                  /\ res' = Empty
  /\ acc' = NoAcc
  /\ Pure /\ UNCHANGED out

\* FunStmt::call, when execute_block has returned an ExecResult.
FunStmt_call ==
  /\ Running({"Call"})
  /\ Top.pc = Len(Nod.kids) + 2
  /\ LET r == FunStmtCallExit(env, Top.prev, res)
     IN env' = r.env /\ Finish(r.res)
  /\ acc' = NoAcc
  /\ Pure /\ UNCHANGED out

get_expr ==
  /\ Running({"Get"})
  /\ IF Top.pc = 0 THEN Descend(Nod.a) /\ UNCHANGED env
     ELSE IF res.val.t = "Instance"
       THEN LET r == InstanceGet(P, env, res.val, Nod.name, Nod.line)
            IN env' = r.env /\ Finish(r.res)
     ELSE Finish(Err("NotAnInstance", Nod.line)) /\ UNCHANGED env
  /\ acc' = NoAcc
  /\ Pure /\ UNCHANGED out

\* pc 1: the object is evaluated; pc 2: the value is. The field is written into
\* object, the handler's own copy of the instance, which is dropped on return.
set_expr ==
  /\ Running({"Set"})
  /\ IF Top.pc = 0 THEN Descend(Nod.a)
     ELSE IF Top.pc = 1
       THEN IF res.val.t # "Instance" THEN Finish(Err("NotAnInstance", Nod.line))
            ELSE /\ stack' = Append([stack EXCEPT ![Len(stack)].pc = 2,
                                                   ![Len(stack)].v = res.val],
                                    Frame(Nod.b, env.curr_node))
                 /\ res' = Empty
     ELSE LET object == InstanceSet(Top.v, Nod.name, res.val)
          IN Finish(Ok(res.val))
  /\ acc' = NoAcc
  /\ Pure /\ UNCHANGED <<env, out>>

\* An Err on its way up (the ? operator): every handler returns it to its
\* caller, FunStmt::call after restoring the scope id; execute_block ends the
\* process with report_and_exit(1); interpret returns it. The unwrap of None in
\* ancestor panics.
propagate ==
  /\ status = "running"
  /\ stack # <<>>
  /\ res.kind \in {"Err", "Panic"}
  /\ IF res.kind = "Panic"
       THEN status' = "panic" /\ stack' = <<>> /\ UNCHANGED env
     ELSE IF Nod.k = "Block"
       THEN status' = "exited" /\ stack' = <<>> /\ UNCHANGED env
     ELSE IF Nod.k = "Program"
       THEN status' = "error" /\ stack' = <<>> /\ UNCHANGED env
     ELSE /\ stack' = SubSeq(stack, 1, Len(stack) - 1)
          /\ env' = IF Nod.k = "Call" /\ Top.pc = Len(Nod.kids) + 2
                      THEN [env EXCEPT !.curr_node = Top.prev]
                      ELSE env
          /\ UNCHANGED status
  /\ acc' = NoAcc
  /\ UNCHANGED <<prog, input, depth, res, out, opIn, opOut, scanner, parser>>

Next ==
  \/ resolve_stmts
  \/ interpret
  \/ expr_statement
  \/ print_statement
  \/ var_statement
  \/ execute_block
  \/ if_statement
  \/ while_statement
  \/ fun_statement
  \/ return_statement
  \/ class_statement
  \/ subclass_statement
  \/ literal_expr
  \/ var_expr
  \/ this_expr
  \/ super_expr
  \/ assign_expr
  \/ grouping_expr
  \/ unary_expr
  \/ binary_expr
  \/ logical_expr
  \/ call_expr
  \/ FunStmt_call
  \/ get_expr
  \/ set_expr
  \/ propagate

Spec == Init /\ [][Next]_vars

(***************************************************************************)
(* is_truthy and the operators of binary_expr and unary_expr on their own, *)
(* applied to operands of every LiteralExpr variant.                       *)
(***************************************************************************)
MaxNum == 2

MaxLine == 2

OpValues ==
  {NilV, BoolV(TRUE), BoolV(FALSE)}
    \cup {NumV(n) : n \in -MaxNum..MaxNum}
    \cup {StrV(""), StrV("a"), StrV("ab")}
    \cup {NativeV(0), UserV(1, 0), ClassV(1, 0), InstanceV(1, 0, EmptyMap)}

BinaryOperators ==
  {"Plus", "Minus", "Slash", "Star", "Greater", "GreaterEqual", "Less", "LessEqual",
   "BangEqual", "EqualEqual"}

UnaryOperators == {"Minus", "Bang"}

InitOps ==
  /\ prog = <<>>
  /\ input = 0
  /\ status = "parsed"
  /\ depth = <<>>
  /\ env = NewEnv
  /\ stack = <<>>
  /\ res = Empty
  /\ out = <<>>
  /\ acc = NoAcc
  /\ opIn = NoOp
  /\ opOut = Empty
  /\ scanner = NoScanner
  /\ parser = NoParser

\* One application in a behaviour: the functions keep no state between calls.
OnlyOps ==
  /\ opIn = NoOp
  /\ UNCHANGED <<prog, input, status, depth, env, stack, res, out, acc, scanner, parser>>

is_truthy ==
  /\ OnlyOps
  /\ \E lit \in OpValues :
       /\ opIn' = [fn |-> "is_truthy", op |-> "", l |-> lit, r |-> NilV, line |-> 0]
       /\ opOut' = Ok(BoolV(IsTruthy(lit)))

binary_op ==
  /\ OnlyOps
  /\ \E op \in BinaryOperators, l \in OpValues, r \in OpValues, line \in 1..MaxLine :
       /\ opIn' = [fn |-> "binary_expr", op |-> op, l |-> l, r |-> r, line |-> line]
       /\ opOut' = BinaryOp(op, l, r, line)

unary_op ==
  /\ OnlyOps
  /\ \E op \in UnaryOperators, right \in OpValues, line \in 1..MaxLine :
       /\ opIn' = [fn |-> "unary_expr", op |-> op, l |-> NilV, r |-> right, line |-> line]
       /\ opOut' = UnaryOp(op, right, line)

NextOps ==
  \/ is_truthy
  \/ binary_op
  \/ unary_op

SpecOps == InitOps /\ [][NextOps]_vars

Range(f) == {f[x] : x \in DOMAIN f}

(***************************************************************************)
(* The scanner (src/src/lox/scanner.rs). A source text is the sequence of *)
(* its characters, each a string of length one; current and start count   *)
(* characters as the code counts bytes (the texts are ASCII). A token is  *)
(* [type, lexeme, literal, line]: the lexeme is a sequence of characters, *)
(* the literal the value of TokenType::Number or of TokenType::String,    *)
(* the latter holding the sequence of its characters.                     *)
(***************************************************************************)
\* BEGIN SOURCES
Sources ==
  <<
(* 1, an unexpected character between two statements
     print 1; @ print 2;
*)
  <<"p", "r", "i", "n", "t", " ", "1", ";", " ", "@", " ", "p",
    "r", "i", "n", "t", " ", "2", ";">>,
(* 2, only an unexpected character
     @
*)
  <<"@">>,
(* 3, only an unterminated string
     "ab
*)
  <<"\"", "a", "b">>,
(* 4, an unexpected character and an unterminated string
     # "a
*)
  <<"#", " ", "\"", "a">>,
(* 5, comments, a number with a fraction, an identifier on a second line
     /* c */ 1.5 // x
     a_b <= "s"
*)
  <<"/", "*", " ", "c", " ", "*", "/", " ", "1", ".", "5", " ",
    "/", "/", " ", "x", "\n", "a", "_", "b", " ", "<", "=", " ",
    "\"", "s", "\"">>,
(* 6, an unterminated block comment
     1 /* c
*)
  <<"1", " ", "/", "*", " ", "c">>,
(* 7, two faulty statements around a good one
     print ; print 1; print ;
*)
  <<"p", "r", "i", "n", "t", " ", ";", " ", "p", "r", "i", "n",
    "t", " ", "1", ";", " ", "p", "r", "i", "n", "t", " ", ";">>,
(* 8, a faulty declaration followed by declarations
     var = 1; fun f(a) { } var b;
*)
  <<"v", "a", "r", " ", "=", " ", "1", ";", " ", "f", "u", "n",
    " ", "f", "(", "a", ")", " ", "{", " ", "}", " ", "v", "a",
    "r", " ", "b", ";">>,
(* 9, for with a var initializer, a condition and an increment
     for (var i = 0; i < 3; i = i + 1) print i;
*)
  <<"f", "o", "r", " ", "(", "v", "a", "r", " ", "i", " ", "=",
    " ", "0", ";", " ", "i", " ", "<", " ", "3", ";", " ", "i",
    " ", "=", " ", "i", " ", "+", " ", "1", ")", " ", "p", "r",
    "i", "n", "t", " ", "i", ";">>,
(* 10, for with an empty initializer
     for (; i < 3; i = i + 1) print i;
*)
  <<"f", "o", "r", " ", "(", ";", " ", "i", " ", "<", " ", "3",
    ";", " ", "i", " ", "=", " ", "i", " ", "+", " ", "1", ")",
    " ", "p", "r", "i", "n", "t", " ", "i", ";">>,
(* 11, for with an expression initializer
     for (i = 0; i < 3; i = i + 1) print i;
*)
  <<"f", "o", "r", " ", "(", "i", " ", "=", " ", "0", ";", " ",
    "i", " ", "<", " ", "3", ";", " ", "i", " ", "=", " ", "i",
    " ", "+", " ", "1", ")", " ", "p", "r", "i", "n", "t", " ",
    "i", ";">>,
(* 12, for with an empty condition
     for (var i = 0;; i = i + 1) print i;
*)
  <<"f", "o", "r", " ", "(", "v", "a", "r", " ", "i", " ", "=",
    " ", "0", ";", ";", " ", "i", " ", "=", " ", "i", " ", "+",
    " ", "1", ")", " ", "p", "r", "i", "n", "t", " ", "i", ";">>,
(* 13, for with an empty increment
     for (var i = 0; i < 3;) print i;
*)
  <<"f", "o", "r", " ", "(", "v", "a", "r", " ", "i", " ", "=",
    " ", "0", ";", " ", "i", " ", "<", " ", "3", ";", ")", " ",
    "p", "r", "i", "n", "t", " ", "i", ";">>,
(* 14, for with no clause
     for (;;) print 1;
*)
  <<"f", "o", "r", " ", "(", ";", ";", ")", " ", "p", "r", "i",
    "n", "t", " ", "1", ";">>,
(* 15, a chain of assignments
     a = b = c;
*)
  <<"a", " ", "=", " ", "b", " ", "=", " ", "c", ";">>,
(* 16, an assignment to a property
     a.b = 1;
*)
  <<"a", ".", "b", " ", "=", " ", "1", ";">>,
(* 17, an assignment to a literal, followed by a statement
     1 = 2; print 3;
*)
  <<"1", " ", "=", " ", "2", ";", " ", "p", "r", "i", "n", "t",
    " ", "3", ";">>,
(* 18, a class, calls, property reads, if, while, return and the operators
     class A { m(x) { return x.f(1, 2).g; } }
     if (!a or b and -c == 1) { while (false) a = (a * 2 - 1) / 3 > nil; } else print true != "s";
*)
  <<"c", "l", "a", "s", "s", " ", "A", " ", "{", " ", "m", "(",
    "x", ")", " ", "{", " ", "r", "e", "t", "u", "r", "n", " ",
    "x", ".", "f", "(", "1", ",", " ", "2", ")", ".", "g", ";",
    " ", "}", " ", "}", "\n", "i", "f", " ", "(", "!", "a", " ",
    "o", "r", " ", "b", " ", "a", "n", "d", " ", "-", "c", " ",
    "=", "=", " ", "1", ")", " ", "{", " ", "w", "h", "i", "l",
    "e", " ", "(", "f", "a", "l", "s", "e", ")", " ", "a", " ",
    "=", " ", "(", "a", " ", "*", " ", "2", " ", "-", " ", "1",
    ")", " ", "/", " ", "3", " ", ">", " ", "n", "i", "l", ";",
    " ", "}", " ", "e", "l", "s", "e", " ", "p", "r", "i", "n",
    "t", " ", "t", "r", "u", "e", " ", "!", "=", " ", "\"", "s",
    "\"", ";">>
  >>
\* END SOURCES

\* '\0', which peek and advance yield at the end of the text.
NUL == "NUL"

Digit == <<"0", "1", "2", "3", "4", "5", "6", "7", "8", "9">>

\* char::is_ascii_alphabetic, or '_'
Alpha ==
  {"a", "b", "c", "d", "e", "f", "g", "h", "i", "j", "k", "l", "m", "n", "o", "p", "q",
   "r", "s", "t", "u", "v", "w", "x", "y", "z", "A", "B", "C", "D", "E", "F", "G", "H",
   "I", "J", "K", "L", "M", "N", "O", "P", "Q", "R", "S", "T", "U", "V", "W", "X", "Y",
   "Z", "_"}

\* keywords()
Keyword(text) ==
  CASE text = <<"a", "n", "d">> -> "And"
    [] text = <<"c", "l", "a", "s", "s">> -> "Class"
    [] text = <<"e", "l", "s", "e">> -> "Else"
    [] text = <<"f", "a", "l", "s", "e">> -> "False"
    [] text = <<"f", "o", "r">> -> "For"
    [] text = <<"f", "u", "n">> -> "Fun"
    [] text = <<"i", "f">> -> "If"
    [] text = <<"n", "i", "l">> -> "Nil"
    [] text = <<"o", "r">> -> "Or"
    [] text = <<"p", "r", "i", "n", "t">> -> "Print"
    [] text = <<"r", "e", "t", "u", "r", "n">> -> "Return"
    [] text = <<"s", "u", "p", "e", "r">> -> "Super"
    [] text = <<"t", "h", "i", "s">> -> "This"
    [] text = <<"t", "r", "u", "e">> -> "True"
    [] text = <<"v", "a", "r">> -> "Var"
    [] text = <<"w", "h", "i", "l", "e">> -> "While"
    [] OTHER -> "Identifier"

Token(type, lexeme, literal, line) ==
  [type |-> type, lexeme |-> lexeme, literal |-> literal, line |-> line]

\* Scanner::new, of the crate src/src or src/tw
NewScanner(crate, source) ==
  [source |-> source, tokens |-> <<>>, start |-> 0, current |-> 0, line |-> 1,
   reported |-> <<>>, state |-> "scanning", crate |-> crate]

Scanner_is_at_end(s) == s.current >= Len(s.source)

Scanner_peek(s) == IF s.current < Len(s.source) THEN s.source[s.current + 1] ELSE NUL

Scanner_peek_next(s) ==
  IF s.current + 1 < Len(s.source) THEN s.source[s.current + 2] ELSE NUL

\* advance: the character it returns is the peek before it; '\0' too has
\* len_utf8() 1.
Scanner_advance(s) == [s EXCEPT !.current = @ + 1]

\* match_char: [found, s]
Scanner_match_char(s, expected) ==
  IF ~Scanner_is_at_end(s) /\ Scanner_peek(s) = expected
    THEN [found |-> TRUE, s |-> [s EXCEPT !.current = @ + 1]]
    ELSE [found |-> FALSE, s |-> s]

Scanner_add_token(s, token_type, literal) ==
  [s EXCEPT !.tokens =
     Append(@, Token(token_type, SubSeq(s.source, s.start + 1, s.current), literal, s.line))]

\* Error::from(..).report(): the error is printed and scanning goes on.
Scanner_report(s, error) == [s EXCEPT !.reported = Append(@, error)]

\* The loops `while <peek is in keep> { advance }` of the line comment, string,
\* number and identifier; the string's loop counts the newlines it passes, and
\* the other loops pass none.
RECURSIVE Scanner_advance_while(_, _)
Scanner_advance_while(s, keep) ==
  IF Scanner_is_at_end(s) \/ Scanner_peek(s) \notin keep THEN s
  ELSE Scanner_advance_while(
         [s EXCEPT !.line = IF Scanner_peek(s) = "\n" THEN @ + 1 ELSE @,
                   !.current = @ + 1], keep)

\* The loop of the block comment. In src/src/lox/scanner.rs it has no test for
\* the end of the text: there peek yields '\0', advance moves current past the
\* end, and the next peek slices the source from an index beyond its length,
\* which panics. In src/tw/src/lox/scanner.rs the loop returns at the end of
\* the text, and scan_token reports the error.
RECURSIVE Scanner_block_comment(_)
Scanner_block_comment(s) ==
  IF s.current > Len(s.source) THEN [s EXCEPT !.state = "panic"]
  ELSE IF Scanner_peek(s) = "*" /\ Scanner_peek_next(s) = "/" THEN s
  ELSE IF s.crate = "tw" /\ Scanner_is_at_end(s) THEN s
  ELSE Scanner_block_comment(
         [s EXCEPT !.line = IF Scanner_peek(s) = "\n" THEN @ + 1 ELSE @,
                   !.current = @ + 1])

Scanner_string(s) ==
  LET s1 == Scanner_advance_while(s, Range(s.source) \ {"\""})
      s2 == Scanner_advance(s1)
  IN IF Scanner_is_at_end(s1)
       THEN Scanner_report(s1, "UnterminatedString")
       ELSE Scanner_add_token(s2, "String", StrV(SubSeq(s.source, s.start + 2, s2.current - 1)))

\* str::parse::<f64> of a text of digits with at most one '.' inside.
RECURSIVE ParseNumber(_, _, _)
ParseNumber(text, n, d) ==
  IF text = <<>> THEN (IF d = 0 THEN NumV(n) ELSE Frac(n, d))
  ELSE IF Head(text) = "." THEN ParseNumber(Tail(text), n, 1)
  ELSE LET digit == CHOOSE i \in 0..9 : Digit[i + 1] = Head(text)
       IN IF d = 0 THEN ParseNumber(Tail(text), 10 * n + digit, 0)
          ELSE ParseNumber(Tail(text), 10 * n + digit, 10 * d)

Scanner_number(s) ==
  LET s1 == Scanner_advance_while(s, Range(Digit))
      s2 == IF Scanner_peek(s1) = "." /\ Scanner_peek_next(s1) \in Range(Digit)
              THEN Scanner_advance_while(Scanner_advance(s1), Range(Digit))
              ELSE s1
      text == SubSeq(s.source, s.start + 1, s2.current)
  IN Scanner_add_token(s2, "Number", ParseNumber(text, 0, 0))

Scanner_identifier(s) ==
  LET s1 == Scanner_advance_while(s, Alpha \cup Range(Digit))
  IN Scanner_add_token(s1, Keyword(SubSeq(s.source, s.start + 1, s1.current)), NilV)

\* scan_token, after self.start = self.current
Scanner_scan_token(s0) ==
  LET c == Scanner_peek(s0)
      s == Scanner_advance(s0)
      eq == Scanner_match_char(s, "=")
      slash == Scanner_match_char(s, "/")
      star == Scanner_match_char(s, "*")
      comment == Scanner_block_comment(star.s)
  IN CASE c = "(" -> Scanner_add_token(s, "LeftParen", NilV)
       [] c = ")" -> Scanner_add_token(s, "RightParen", NilV)
       [] c = "{" -> Scanner_add_token(s, "LeftBrace", NilV)
       [] c = "}" -> Scanner_add_token(s, "RightBrace", NilV)
       [] c = "," -> Scanner_add_token(s, "Comma", NilV)
       [] c = "." -> Scanner_add_token(s, "Dot", NilV)
       [] c = "-" -> Scanner_add_token(s, "Minus", NilV)
       [] c = "+" -> Scanner_add_token(s, "Plus", NilV)
       [] c = ";" -> Scanner_add_token(s, "Semicolon", NilV)
       [] c = "*" -> Scanner_add_token(s, "Star", NilV)
       [] c = "!" -> Scanner_add_token(eq.s, IF eq.found THEN "BangEqual" ELSE "Bang", NilV)
       [] c = "=" -> Scanner_add_token(eq.s, IF eq.found THEN "EqualEqual" ELSE "Equal", NilV)
       [] c = "<" -> Scanner_add_token(eq.s, IF eq.found THEN "LessEqual" ELSE "Less", NilV)
       [] c = ">" -> Scanner_add_token(eq.s, IF eq.found THEN "GreaterEqual" ELSE "Greater", NilV)
       [] c = "/" ->
            IF slash.found THEN Scanner_advance_while(slash.s, Range(s.source) \ {"\n"})
            ELSE IF star.found
              THEN IF comment.state = "panic" THEN comment
                   ELSE IF Scanner_is_at_end(comment)
                     THEN Scanner_report(comment, "UnterminatedString")
                   ELSE Scanner_advance(Scanner_advance(comment))
            ELSE Scanner_add_token(s, "Slash", NilV)
       [] c \in {" ", "\r", "\t"} -> s
       [] c = "\n" -> [s EXCEPT !.line = @ + 1]
       [] c = "\"" -> Scanner_string(s)
       [] c \in Range(Digit) -> Scanner_number(s)
       [] c \in Alpha -> Scanner_identifier(s)
       [] OTHER -> Scanner_report(s, "UnexpectedChar")

(***************************************************************************)
(* The parser (src/src/lox/parser.rs). A parsing method is an operator    *)
(* from the parser to [p, n]: the parser after the call and the Stmt or   *)
(* Expr it returned; p.err names the Err of a call that failed, and the   *)
(* callers hand it on as the ? operator does. A node is [k, name, lit,    *)
(* kids] with the kinds of the AST above; its children are nodes.         *)
(* Then(r, F) is `let x = r?; F(x)`.                                       *)
(***************************************************************************)
Node(k, name, lit, kids) == [k |-> k, name |-> name, lit |-> lit, kids |-> kids]

NilLiteral == Node("Literal", <<>>, NilV, <<>>)

\* From<Expr> for Stmt
ExprStmt(e) == Node("Expression", <<>>, NilV, <<e>>)

\* Parser::new
NewParser(tokens) ==
  [tokens |-> tokens, current |-> 0, err |-> "", statements |-> <<>>,
   reported |-> <<>>, state |-> "parsing"]

R(p, n) == [p |-> p, n |-> n]

Failed(r) == r.p.err # ""

Fail(p, error) == R([p EXCEPT !.err = error], NilLiteral)

Then(r, F(_)) == IF Failed(r) THEN r ELSE F(r)

\* peek: tokens.get(current), else previous()
Parser_peek(p) ==
  IF p.current < Len(p.tokens) THEN p.tokens[p.current + 1] ELSE p.tokens[p.current]

Parser_is_at_end(p) == Parser_peek(p).type = "EOF"

Parser_previous(p) == IF p.current = 0 THEN Parser_peek(p) ELSE p.tokens[p.current]

Parser_advance(p) == IF Parser_is_at_end(p) THEN p ELSE [p EXCEPT !.current = @ + 1]

\* check, for the types match_token is called with: a match_token that finds
\* one of them is Parser_check followed by Parser_advance.
Parser_check(p, types) == ~Parser_is_at_end(p) /\ Parser_peek(p).type \in types

\* consume: n is the token
Parser_consume(p, token_type) ==
  IF Parser_check(p, {token_type}) THEN R(Parser_advance(p), Parser_peek(p))
  ELSE Fail(p, "ExpectedToken")

\* The loop of synchronize, after its first advance.
RECURSIVE Parser_synchronize_loop(_)
Parser_synchronize_loop(p) ==
  IF Parser_is_at_end(p) THEN p
  ELSE IF Parser_previous(p).type = "Semicolon" THEN p
  ELSE IF Parser_peek(p).type \in
            {"Class", "Fun", "Var", "For", "If", "While", "Print", "Return"} THEN p
  ELSE Parser_synchronize_loop(Parser_advance(p))

Parser_synchronize(p) == Parser_synchronize_loop(Parser_advance(p))

\* The operators of logic_or, logic_and, equality, comparison, term and factor.
Operators ==
  <<{"Or"}, {"And"}, {"BangEqual", "EqualEqual"},
    {"Greater", "GreaterEqual", "Less", "LessEqual"}, {"Minus", "Plus"}, {"Star", "Slash"}>>

RECURSIVE Parser_declaration(_), Parser_fun_dec(_), Parser_statement(_),
          Parser_block_stmt(_), Parser_block_loop(_, _), Parser_assignment(_),
          Parser_binary(_, _), Parser_binary_loop(_, _, _), Parser_unary(_),
          Parser_call_loop(_, _), Parser_arguments(_, _), Parser_primary(_),
          Parser_methods(_, _), Parser_parameters(_, _)

Parser_expression(p) == Parser_assignment(p)

Parser_primary(p) ==
  LET token == Parser_peek(p)
  IN CASE token.type = "False" -> R(Parser_advance(p), Node("Literal", <<>>, BoolV(FALSE), <<>>))
       [] token.type = "True" -> R(Parser_advance(p), Node("Literal", <<>>, BoolV(TRUE), <<>>))
       [] token.type = "Nil" -> R(Parser_advance(p), NilLiteral)
       [] token.type \in {"Number", "String"} ->
            R(Parser_advance(p), Node("Literal", <<>>, token.literal, <<>>))
       [] token.type = "LeftParen" ->
            Then(Parser_expression(Parser_advance(p)), LAMBDA expr :
            Then(Parser_consume(expr.p, "RightParen"), LAMBDA paren :
            R(paren.p, Node("Grouping", <<>>, NilV, <<expr.n>>))))
       [] token.type = "Identifier" ->
            R(Parser_advance(p), Node("VarExpr", token.lexeme, NilV, <<>>))
       [] OTHER -> Fail(p, "UnexpectedEOF")

\* The loop of finish_call, entered when the next token is not ')'; 255
\* arguments are more than a source here has.
Parser_arguments(p, args) ==
  Then(Parser_expression(p), LAMBDA arg :
  IF Parser_check(arg.p, {"Comma"})
    THEN Parser_arguments(Parser_advance(arg.p), Append(args, arg.n))
    ELSE R(arg.p, Append(args, arg.n)))

Parser_finish_call(p, callee) ==
  Then(IF Parser_check(p, {"RightParen"}) THEN R(p, <<>>) ELSE Parser_arguments(p, <<>>),
       LAMBDA args :
  Then(Parser_consume(args.p, "RightParen"), LAMBDA paren :
  R(paren.p, Node("Call", <<>>, NilV, <<callee>> \o args.n))))

\* The loop of call
Parser_call_loop(p, expr) ==
  IF Parser_check(p, {"LeftParen"})
    THEN Then(Parser_finish_call(Parser_advance(p), expr), LAMBDA called :
         Parser_call_loop(called.p, called.n))
  ELSE IF Parser_check(p, {"Dot"})
    THEN Then(Parser_consume(Parser_advance(p), "Identifier"), LAMBDA name :
         Parser_call_loop(name.p, Node("Get", name.n.lexeme, NilV, <<expr>>)))
  ELSE R(p, expr)

Parser_call(p) ==
  Then(Parser_primary(p), LAMBDA expr : Parser_call_loop(expr.p, expr.n))

Parser_unary(p) ==
  IF Parser_check(p, {"Bang", "Minus"})
    THEN Then(Parser_unary(Parser_advance(p)), LAMBDA right :
         R(right.p, Node("Unary", Parser_peek(p).type, NilV, <<right.n>>)))
    ELSE Parser_call(p)

\* The loop `while self.match_token(<operators of the level>)` of logic_or (level
\* 1), logic_and, equality, comparison, term and factor (level 6).
Parser_binary_loop(p, expr, level) ==
  IF Parser_check(p, Operators[level])
    THEN Then(Parser_binary(Parser_advance(p), level + 1), LAMBDA right :
         Parser_binary_loop(right.p,
           Node(IF level <= 2 THEN "Logical" ELSE "Binary", Parser_peek(p).type, NilV,
                <<expr, right.n>>), level))
    ELSE R(p, expr)

Parser_binary(p, level) ==
  IF level > Len(Operators) THEN Parser_unary(p)
  ELSE Then(Parser_binary(p, level + 1), LAMBDA expr :
       Parser_binary_loop(expr.p, expr.n, level))

Parser_logic_or(p) == Parser_binary(p, 1)

Parser_assignment(p) ==
  Then(Parser_logic_or(p), LAMBDA expr :
  IF ~Parser_check(expr.p, {"Equal"}) THEN expr
  ELSE Then(Parser_assignment(Parser_advance(expr.p)), LAMBDA val :
       IF expr.n.k = "VarExpr"
         THEN R(val.p, Node("Assign", expr.n.name, NilV, <<val.n>>))
         ELSE Fail(val.p, "InvalidAssignment")))

Parser_expr_stmt(p) ==
  Then(Parser_expression(p), LAMBDA expr :
  Then(Parser_consume(expr.p, "Semicolon"), LAMBDA semi :
  R(semi.p, ExprStmt(expr.n))))

Parser_print_stmt(p) ==
  Then(Parser_expression(Parser_advance(p)), LAMBDA val :
  Then(Parser_consume(val.p, "Semicolon"), LAMBDA semi :
  R(semi.p, Node("Print", <<>>, NilV, <<val.n>>))))

\* The loop of block_stmt
Parser_block_loop(p, stmts) ==
  IF Parser_check(p, {"RightBrace"}) \/ Parser_is_at_end(p) THEN R(p, stmts)
  ELSE Then(Parser_declaration(p), LAMBDA stmt :
       Parser_block_loop(stmt.p, Append(stmts, stmt.n)))

Parser_block_stmt(p) ==
  Then(Parser_consume(p, "LeftBrace"), LAMBDA open :
  Then(Parser_block_loop(open.p, <<>>), LAMBDA stmts :
  Then(Parser_consume(stmts.p, "RightBrace"), LAMBDA close :
  R(close.p, Node("Block", <<>>, NilV, stmts.n)))))

\* The three advances pass `if`, `(` and `)` whatever the tokens are.
Parser_if_stmt(p) ==
  Then(Parser_expression(Parser_advance(Parser_advance(p))), LAMBDA cond :
  Then(Parser_statement(Parser_advance(cond.p)), LAMBDA then_b :
  Then(IF Parser_check(then_b.p, {"Else"})
         THEN Parser_statement(Parser_advance(then_b.p))
         ELSE R(then_b.p, ExprStmt(NilLiteral)), LAMBDA else_b :
  R(else_b.p, Node("If", <<>>, NilV, <<cond.n, then_b.n, else_b.n>>)))))

Parser_var_dec(p) ==
  Then(Parser_consume(p, "Identifier"), LAMBDA name :
  Then(IF Parser_check(name.p, {"Equal"})
         THEN Parser_expression(Parser_advance(name.p))
         ELSE R(name.p, NilLiteral), LAMBDA init :
  Then(Parser_consume(init.p, "Semicolon"), LAMBDA semi :
  R(semi.p, Node("Var", name.n.lexeme, NilV, <<init.n>>)))))

\* The end of for_stmt: the statement it builds from its four parts.
ForLoop(initializer, condition, increment, body) ==
  LET full == IF increment # ExprStmt(NilLiteral)
                THEN Node("Block", <<>>, NilV, <<body, increment>>)
                ELSE body
      stmt == Node("While", <<>>, NilV, <<condition, full>>)
  IN IF initializer # ExprStmt(NilLiteral)
       THEN Node("Block", <<>>, NilV, <<initializer, stmt>>)
       ELSE stmt

Parser_for_stmt(p) ==
  Then(Parser_consume(Parser_advance(p), "LeftParen"), LAMBDA paren :
  Then(IF Parser_check(paren.p, {"Semicolon"})
         THEN R(Parser_advance(paren.p), ExprStmt(NilLiteral))
       ELSE IF Parser_check(paren.p, {"Var"}) THEN Parser_var_dec(Parser_advance(paren.p))
       ELSE Then(Parser_expression(paren.p), LAMBDA expr : R(expr.p, ExprStmt(expr.n))),
       LAMBDA initializer :
  Then(IF Parser_check(initializer.p, {"Semicolon"})
         THEN R(Parser_advance(initializer.p), Node("Literal", <<>>, BoolV(TRUE), <<>>))
         ELSE Parser_expression(initializer.p), LAMBDA condition :
  Then(Parser_consume(condition.p, "Semicolon"), LAMBDA semi :
  Then(IF Parser_check(semi.p, {"RightParen"})
         THEN R(Parser_advance(semi.p), ExprStmt(NilLiteral))
         ELSE Then(Parser_expression(semi.p), LAMBDA expr : R(expr.p, ExprStmt(expr.n))),
       LAMBDA increment :
  Then(Parser_consume(increment.p, "RightParen"), LAMBDA close :
  Then(Parser_statement(close.p), LAMBDA body :
  R(body.p, ForLoop(initializer.n, condition.n, increment.n, body.n)))))))))

Parser_while_stmt(p) ==
  Then(Parser_consume(Parser_advance(p), "LeftParen"), LAMBDA paren :
  Then(Parser_expression(paren.p), LAMBDA condition :
  Then(Parser_consume(condition.p, "RightParen"), LAMBDA close :
  Then(Parser_statement(close.p), LAMBDA body :
  R(body.p, Node("While", <<>>, NilV, <<condition.n, body.n>>))))))

Parser_return_stmt(p) ==
  Then(IF Parser_check(Parser_advance(p), {"Semicolon"}) THEN R(Parser_advance(p), NilLiteral)
       ELSE Parser_expression(Parser_advance(p)), LAMBDA val :
  Then(Parser_consume(val.p, "Semicolon"), LAMBDA semi :
  R(semi.p, Node("Return", <<>>, NilV, <<val.n>>))))

Parser_statement(p) ==
  LET type == Parser_peek(p).type
  IN CASE type = "Print" -> Parser_print_stmt(p)
       [] type = "LeftBrace" -> Parser_block_stmt(p)
       [] type = "If" -> Parser_if_stmt(p)
       [] type = "While" -> Parser_while_stmt(p)
       [] type = "For" -> Parser_for_stmt(p)
       [] type = "Return" -> Parser_return_stmt(p)
       [] OTHER -> Parser_expr_stmt(p)

\* The loop of fun_dec, entered when the next token is not ')'; 255 parameters
\* are more than a source here has.
Parser_parameters(p, params) ==
  Then(Parser_consume(p, "Identifier"), LAMBDA param :
  IF Parser_check(param.p, {"Comma"})
    THEN Parser_parameters(Parser_advance(param.p), Append(params, param.n.lexeme))
    ELSE R(param.p, Append(params, param.n.lexeme)))

\* n.lit holds the parameters of the FunStmt
Parser_fun_dec(p) ==
  Then(Parser_consume(p, "Identifier"), LAMBDA name :
  Then(Parser_consume(name.p, "LeftParen"), LAMBDA paren :
  Then(IF Parser_check(paren.p, {"RightParen"}) THEN R(paren.p, <<>>)
       ELSE Parser_parameters(paren.p, <<>>), LAMBDA params :
  Then(Parser_consume(params.p, "RightParen"), LAMBDA close :
  Then(Parser_block_stmt(close.p), LAMBDA body :
  R(body.p, Node("Function", name.n.lexeme, params.n, <<body.n>>)))))))

\* The loop of class_dec
Parser_methods(p, methods) ==
  IF Parser_check(p, {"RightBrace"}) \/ Parser_is_at_end(p) THEN R(p, methods)
  ELSE Then(Parser_fun_dec(p), LAMBDA fun : Parser_methods(fun.p, Append(methods, fun.n)))

Parser_class_dec(p) ==
  Then(Parser_consume(Parser_advance(p), "Identifier"), LAMBDA name :
  Then(Parser_consume(name.p, "LeftBrace"), LAMBDA open :
  Then(Parser_methods(open.p, <<>>), LAMBDA methods :
  Then(Parser_consume(methods.p, "RightBrace"), LAMBDA close :
  R(close.p, Node("Class", name.n.lexeme, NilV, methods.n))))))

\* The end of declaration: on an Err it calls synchronize and then
\* report_and_exit(1), which prints the error and ends the process, the state
\* "exited". An Err of a declaration inside a block has ended the process there.
OrExit(stmt) ==
  IF Failed(stmt) /\ stmt.p.state # "exited"
    THEN R([Parser_synchronize(stmt.p) EXCEPT !.reported = Append(@, stmt.p.err),
                                              !.state = "exited"], stmt.n)
    ELSE stmt

Parser_declaration(p) ==
  LET type == Parser_peek(p).type
  IN OrExit(CASE type = "Class" -> Parser_class_dec(p)
              [] type = "Fun" -> Parser_fun_dec(Parser_advance(p))
              [] type = "Var" -> Parser_var_dec(Parser_advance(p))
              [] OTHER -> Parser_statement(p))

\* The end of a turn of parse's loop: statements.push(..), or the Err handed on
\* by ?, which ends parse.
Pushed(stmt) ==
  IF Failed(stmt) THEN stmt.p ELSE [stmt.p EXCEPT !.statements = Append(@, stmt.n)]

(***************************************************************************)
(* handle_run_command on a source text: scan_from, then run, which parses *)
(* and hands the statements to the resolver and the interpreter. The      *)
(* scanner takes one step for a call of scan_token, the parser one for a  *)
(* call of declaration by parse. parser.state is "parsing" in parse,      *)
(* "exited" when the process has ended there, "interpreting" when run has *)
(* handed statements on, and "succeeded" when run has returned Ok(()) on   *)
(* a program of no statement, which resolves and interprets to Ok(()).    *)
(***************************************************************************)
Crates == {"src", "tw"}

InitFront ==
  /\ prog = <<>>
  /\ input = 0
  /\ status = "parsed"
  /\ depth = <<>>
  /\ env = NewEnv
  /\ stack = <<>>
  /\ res = Empty
  /\ out = <<>>
  /\ acc = NoAcc
  /\ opIn = NoOp
  /\ opOut = Empty
  /\ \E crate \in Crates, i \in 1..Len(Sources) : scanner = NewScanner(crate, Sources[i])
  /\ parser = NoParser

Front == UNCHANGED <<prog, input, status, depth, env, stack, res, out, acc, opIn, opOut>>

\* scan_tokens: one turn of its loop
scan_token ==
  /\ scanner.state = "scanning"
  /\ ~Scanner_is_at_end(scanner)
  /\ scanner' = Scanner_scan_token([scanner EXCEPT !.start = scanner.current])
  /\ UNCHANGED parser
  /\ Front

\* scan_tokens: after its loop
scan_tokens ==
  /\ scanner.state = "scanning"
  /\ Scanner_is_at_end(scanner)
  /\ scanner' = [scanner EXCEPT !.tokens = Append(@, Token("EOF", <<>>, NilV, scanner.line)),
                                !.state = "scanned"]
  /\ UNCHANGED parser
  /\ Front

\* run: Parser::new(tokens)
run ==
  /\ scanner.state = "scanned"
  /\ parser.state = ""
  /\ parser' = NewParser(scanner.tokens)
  /\ UNCHANGED scanner
  /\ Front

\* parse: one turn of its loop
declaration ==
  /\ parser.state = "parsing"
  /\ ~Parser_is_at_end(parser)
  /\ parser' = Pushed(Parser_declaration(parser))
  /\ UNCHANGED scanner
  /\ Front

\* parse: after its loop, and run from there
parse ==
  /\ parser.state = "parsing"
  /\ Parser_is_at_end(parser)
  /\ parser' = [parser EXCEPT !.state = IF parser.statements = <<>> THEN "succeeded"
                                        ELSE "interpreting"]
  /\ UNCHANGED scanner
  /\ Front

NextFront ==
  \/ scan_token
  \/ scan_tokens
  \/ run
  \/ declaration
  \/ parse

SpecFront == InitFront /\ [][NextFront]_vars

(***************************************************************************)
(* Properties.                                                            *)
(***************************************************************************)
\* The ids a value holds: the closure of a function or of a class, the class
\* closure an instance carries, and those of the instance's fields.
ClosureIds(v) ==
  (IF v.t \in {"User", "Class", "Instance"} THEN {v.c} ELSE {})
    \cup {v.f[k].c : k \in {x \in DOMAIN v.f : v.f[x].t \in {"User", "Class", "Instance"}}}

\* Every value the interpreter holds: bound in a scope, held by a handler,
\* returned last, or printed.
HeldValues ==
  UNION {Range(env.nodes[i].values) : i \in DOMAIN env.nodes}
    \cup UNION {{stack[i].v} \cup Range(stack[i].vs) : i \in DOMAIN stack}
    \cup {res.val}
    \cup Range(out)

Ids == 0..(Len(env.nodes) - 1)

\* The lexical structure of the program, read off the syntax tree alone.
Children(nd) == ({nd.a, nd.b, nd.c} \ {0}) \cup Range(nd.kids)

ParentOf(n) == CHOOSE m \in DOMAIN P : n \in Children(P[m])

\* The nodes that open a scope around node n, innermost first: a block, a
\* function (its parameters), a class (this); last the program (the globals).
RECURSIVE ScopesOf(_)
ScopesOf(n) ==
  IF n = 1 THEN <<1>>
  ELSE LET m == ParentOf(n)
       IN IF P[m].k \in {"Block", "Function", "Class"}
            THEN <<m>> \o ScopesOf(m)
            ELSE ScopesOf(m)

\* Scope node s declares name in a declaration that comes before node r in the
\* text (a statement's node comes before the nodes of its parts).
DeclaresBefore(s, name, r) ==
  CASE P[s].k = "Block" ->
         \E i \in DOMAIN P[s].kids :
           /\ P[P[s].kids[i]].k \in {"Var", "Function", "Class"}
           /\ P[P[s].kids[i]].name = name
           /\ P[s].kids[i] < r
    [] P[s].k = "Function" -> name \in Range(P[s].params)
    [] P[s].k = "Class" -> name = "this"
    [] OTHER -> FALSE

Declares(s, name) == DeclaresBefore(s, name, Len(P) + 1)

\* The last step read or assigned the variable of a Var or Assign node.
AccessMade == acc.node # 0 /\ P[acc.node].k \in {"VarExpr", "Assign"}

\* The scope k parent links above the scope the access was made in.
Above(k) == Walk(env, acc.curr, k)

\* C1 as stated: the walk of depth d stays in the arena and ends in the scope
\* that binds the name, no scope it passes binds the name, and a node without
\* depth names a variable no enclosing non-global scope declares.
C1_SkippedScopesNeverBind ==
  AccessMade =>
    LET d == depth[acc.node]
        name == P[acc.node].name
        chain == ScopesOf(acc.node)
    IN IF d # None
         THEN /\ acc.scope # None
              /\ acc.bound
              /\ \A k \in 0..(d - 1) : name \notin DOMAIN At(env, Above(k)).values
         ELSE /\ acc.scope = 0
              /\ \A i \in DOMAIN chain : P[chain[i]].k # "Program" => ~Declares(chain[i], name)

\* C1, amended: the scopes on the walk are those of the blocks, functions and
\* classes around the node, innermost first; the walk of depth d ends in the
\* scope of the innermost of them that declares the name before the node, and a
\* read finds the name bound there; a scope passed on the way may bind the name
\* only by a declaration that comes after the node; a node without depth has no
\* enclosing non-global scope that declares the name before it, and scope 0 is
\* looked up.
C1_DepthFollowsDeclarationOrder ==
  AccessMade =>
    LET d == depth[acc.node]
        name == P[acc.node].name
        chain == ScopesOf(acc.node)
    IN IF d # None
         THEN /\ acc.scope # None
              /\ d < Len(chain)
              /\ \A k \in 0..d : At(env, Above(k)).origin = chain[k + 1]
              /\ At(env, acc.scope).origin = chain[d + 1]
              /\ DeclaresBefore(chain[d + 1], name, acc.node)
              /\ P[acc.node].k = "VarExpr" => acc.bound
              /\ \A k \in 0..(d - 1) :
                   /\ ~DeclaresBefore(chain[k + 1], name, acc.node)
                   /\ name \in DOMAIN At(env, Above(k)).values => Declares(chain[k + 1], name)
         ELSE /\ acc.scope = 0
              /\ \A i \in DOMAIN chain :
                   P[chain[i]].k # "Program" => ~DeclaresBefore(chain[i], name, acc.node)

\* count() reads i two scopes up, in the scope of a call of makeCounter that
\* has returned: no active handler was entered in that scope.
C1_Witness ==
  /\ P = ProgCounter
  /\ AccessMade
  /\ depth[acc.node] = 2
  /\ acc.bound
  /\ acc.scope # None
  /\ \A i \in DOMAIN stack : stack[i].site # acc.scope

\* C2: when execute_block returns, normally or with a Return, the current scope
\* id is the one the block was entered with.
C2_BlockRestoresScope ==
  [][(execute_block /\ Len(stack') < Len(stack)) => env'.curr_node = Top.site]_vars

\* A block inside an if inside a while inside a function body has just returned
\* a Return to the if, in the scope the if was entered in.
C2_Witness ==
  /\ status = "running" /\ stack # <<>>
  /\ res.kind = "Return"
  /\ Nod.k = "If" /\ Top.pc = 2 /\ P[Nod.b].k = "Block"
  /\ env.curr_node = Top.site
  /\ Top.site # 0

\* The values a run of ProgCounter prints: 1, 2, ..., input from the calls of
\* counter, then 1 from the first call of other.
RECURSIVE CountTo(_)
CountTo(k) == IF k = 0 THEN <<>> ELSE Append(CountTo(k - 1), NumV(k))

IsPrefix(s, t) == Len(s) <= Len(t) /\ s = SubSeq(t, 1, Len(s))

\* C3: the k-th call of the function make() returned yields k: the closure
\* sees the binding of i as earlier calls left it, and a second closure of
\* another call of make() starts from its own i.
C3_ClosureCounts ==
  P = ProgCounter =>
    /\ IsPrefix(out, Append(CountTo(input), NumV(1)))
    /\ status = "done" => out = Append(CountTo(input), NumV(1))

C3_Witness ==
  /\ P = ProgCounter
  /\ status = "done"
  /\ Len(out) >= 3
  /\ out[2] = NumV(2) /\ out[3] = NumV(3)

\* C4: the arena never shrinks, a scope keeps its index and its parent, and
\* every scope id in use is an index of the arena.
C4_ArenaStable ==
  /\ [][/\ Len(env'.nodes) >= Len(env.nodes)
        /\ \A i \in DOMAIN env.nodes :
             /\ env'.nodes[i].parent = env.nodes[i].parent
             /\ env'.nodes[i].origin = env.nodes[i].origin]_vars
  /\ [](/\ env.curr_node \in Ids
        /\ \A i \in DOMAIN env.nodes : env.nodes[i].parent \in Ids \cup {None}
        /\ \A v \in HeldValues : ClosureIds(v) \subseteq Ids
        /\ \A i \in DOMAIN stack : stack[i].site \in Ids /\ stack[i].prev \in Ids)

\* A closure is called after the scope it captured was popped: the current
\* scope's parent is a scope no active handler was entered in.
C4_Witness ==
  /\ status = "running"
  /\ env.curr_node # 0
  /\ At(env, env.curr_node).parent # 0
  /\ \A i \in DOMAIN stack : stack[i].site # At(env, env.curr_node).parent
  /\ \E v \in HeldValues : v.t = "User" /\ v.c = At(env, env.curr_node).parent

RECURSIVE ReachesGlobals(_, _)
ReachesGlobals(id, seen) ==
  IF id = 0 THEN TRUE
  ELSE IF id = None \/ id \in seen \/ id \notin Ids THEN FALSE
  ELSE ReachesGlobals(At(env, id).parent, seen \cup {id})

\* C5: scope 0 is the only scope without a parent, and from every scope the
\* parent links lead to scope 0 without passing a scope twice.
C5_ChainsReachGlobals ==
  \A id \in Ids :
    /\ (At(env, id).parent = None) <=> (id = 0)
    /\ ReachesGlobals(id, {})

\* A scope pushed by bind (it holds this) is the parent of the scope of a
\* call of the bound method.
C5_Witness ==
  \E id \in Ids :
    /\ "this" \in DOMAIN At(env, id).values
    /\ At(env, id).parent # None
    /\ \E other \in Ids : other > id /\ At(env, other).parent = id

\* C6: when FunStmt::call returns, the current scope id is the one of the call
\* site, and the value is the Return's value, or nil without a Return.
C6_CallRestoresScope ==
  [][FunStmt_call =>
       /\ env'.curr_node = Top.site
       /\ res' = Ok(IF res.kind = "Return" THEN res.val ELSE NilV)]_vars

\* print find(..) inside a block inside a while: the call has returned its
\* value into the scope of the block.
C6_Witness ==
  /\ status = "running" /\ stack # <<>>
  /\ Nod.k = "Print" /\ Top.pc = 1 /\ P[Nod.a].k = "Call"
  /\ res = Ok(NumV(input))
  /\ env.curr_node = Top.site
  /\ Top.site # 0
  /\ P = ProgReturn

RECURSIVE Times(_, _)
Times(v, k) == IF k = 0 THEN <<>> ELSE Append(Times(v, k - 1), v)

\* What ProgReturn prints: find(input) prints "loop" input times and returns
\* input from inside its while loop; the caller's loop calls it twice.
ReturnOutput ==
  Times(StrV("loop"), input) \o <<NumV(input)>>
    \o Times(StrV("loop"), input) \o <<NumV(input)>>
    \o <<NilV, StrV("end")>>

\* C7: a Return goes up one handler at a time, through blocks, ifs and whiles
\* only, nothing is printed on its way, and the first call it reaches turns it
\* into a value; the caller goes on: ProgReturn prints what follows the calls.
C7_ReturnUnwinds ==
  /\ [][(status = "running" /\ res.kind = "Return") =>
          /\ Len(stack') = Len(stack) - 1
          /\ out' = out
          /\ IF Nod.k = "Call"
               THEN res' = Ok(res.val)
               ELSE Nod.k \in {"Block", "If", "While"} /\ res' = res]_vars
  /\ [](P = ProgReturn =>
          /\ IsPrefix(out, ReturnOutput)
          /\ status = "done" => out = ReturnOutput)

\* The Return of find has left the while loop of find, with the caller's own
\* while loop still active below the call.
C7_Witness ==
  /\ P = ProgReturn
  /\ status = "running" /\ stack # <<>>
  /\ res.kind = "Return"
  /\ Nod.k = "While"
  /\ \E i, j \in DOMAIN stack :
       i < j /\ P[stack[i].node].k = "While" /\ P[stack[j].node].k = "Call"
  /\ Len(out) > input + 1

\* C8: is_truthy is false for nil and for false, and true for every other
\* value.
C8_OnlyNilAndFalseAreFalsy ==
  opIn.fn = "is_truthy" =>
    opOut = Ok(BoolV(opIn.l.t # "Nil" /\ opIn.l # BoolV(FALSE)))

\* C9: + adds two numbers, concatenates two strings and fails with
\* InvalidBinaryOperands on every other pair of operands.
C9_PlusWithoutCoercion ==
  (opIn.fn = "binary_expr" /\ opIn.op = "Plus") =>
    opOut = IF opIn.l.t = "Number" /\ opIn.r.t = "Number" THEN Ok(NumAdd(opIn.l, opIn.r))
            ELSE IF opIn.l.t = "String" /\ opIn.r.t = "String"
              THEN Ok(StrV(opIn.l.s \o opIn.r.s))
            ELSE Err("InvalidBinaryOperands", opIn.line)

\* C10: - * / < <= > >= fail with NumberExpected at the operator's line when
\* either operand is not a number.
C10_NumberExpected ==
  (/\ opIn.fn = "binary_expr"
   /\ opIn.op \in {"Minus", "Star", "Slash", "Less", "LessEqual", "Greater", "GreaterEqual"}
   /\ (opIn.l.t # "Number" \/ opIn.r.t # "Number")) =>
    opOut = Err("NumberExpected", opIn.line)

\* C11: == and != never fail: nil equals nil only, strings are equal when
\* their contents are, numbers when they are numerically equal, values of
\* different tags are unequal, and != is the negation of ==.
C11_EqualityIsTotal ==
  (opIn.fn = "binary_expr" /\ opIn.op \in {"EqualEqual", "BangEqual"}) =>
    LET same == IF opIn.l.t # opIn.r.t THEN FALSE ELSE opIn.l = opIn.r
    IN opOut = Ok(BoolV(IF opIn.op = "EqualEqual" THEN same ELSE ~same))

\* What ProgLogical prints: bump() counts its calls in n and returns "b"; the
\* left operands are the input, nil, false and "a".
LogicalOutput ==
  LET A == NumV(input)
      t == IsTruthy(A)
  IN <<IF t THEN A ELSE StrV("b"), NumV(IF t THEN 0 ELSE 1),
       IF t THEN StrV("b") ELSE A, NumV(1),
       StrV("b"), BoolV(FALSE), StrV("a"), NumV(2)>>

CallsOutput ==
  CASE input = 0 -> [out |-> <<StrV("c"), NumV(1), NumV(2), StrV("body"), NumV(3), StrV("end")>>,
                     err |-> ""]
    [] input = 1 -> [out |-> <<NumV(1)>>, err |-> "NotCallable"]
    [] input = 2 -> [out |-> <<NumV(1)>>, err |-> "ArgumentCountMismatch"]
    [] input = 3 -> [out |-> <<StrV("c"), NumV(1), NumV(2), NumV(3)>>,
                     err |-> "ArgumentCountMismatch"]
    [] OTHER -> [out |-> <<StrV("end")>>, err |-> ""]

\* C13: a call evaluates the callee and then the arguments left to right; a
\* callee that is not callable fails with NotCallable and a wrong number of
\* arguments with ArgumentCountMismatch, and a failing call executes no body,
\* adds no scope to the arena and leaves the current scope where it was.
C13_CallChecksBeforeBody ==
  /\ [][(call_expr /\ Top.pc = Len(Nod.kids) + 1) =>
          LET callee == IF Top.pc = 1 THEN res.val ELSE Top.v
              count == Len(Nod.kids)
              callable == callee.t \in {"User", "Native", "Class"}
          IN /\ ~callable => res' = Err("NotCallable", Nod.line)
             /\ (callable /\ count # Arity(P, callee)) =>
                   res' = Err("ArgumentCountMismatch", Nod.line)
             /\ res'.kind = "Err" =>
                   /\ ~callable \/ count # Arity(P, callee)
                   /\ env' = env
                   /\ out' = out
                   /\ stack' = SubSeq(stack, 1, Len(stack) - 1)]_vars
  /\ [][(call_expr /\ Top.pc \in 1..Len(Nod.kids)) =>
          /\ stack'[Len(stack')].node = Nod.kids[Top.pc]
          /\ env' = env]_vars
  /\ [](P = ProgCalls =>
          /\ IsPrefix(out, CallsOutput.out)
          /\ status \in {"done", "error", "exited", "panic"} =>
               /\ out = CallsOutput.out
               /\ IF CallsOutput.err = "" THEN status = "done"
                  ELSE status = "error" /\ res.err = CallsOutput.err)

\* pick("c")(p(1), p(2), p(3)) has evaluated its callee and its three
\* arguments in order and failed on the count, in the global scope and with
\* the arena as the last finished call left it.
C13_Witness ==
  /\ P = ProgCalls /\ input = 3
  /\ status = "running" /\ stack # <<>>
  /\ Nod.k = "Print"
  /\ res.kind = "Err" /\ res.err = "ArgumentCountMismatch"
  /\ out = <<StrV("c"), NumV(1), NumV(2), NumV(3)>>
  /\ env.curr_node = 0

\* C14: calling a class runs its init method on the new instance with the
\* call's arguments, the class's arity being that of init: ProgInit prints
\* "init" when Greeter() is called, then "made", then the argument of
\* Point(input) from inside init, then "end", and ends normally.
C14_ClassCallRunsInit ==
  P = ProgInit =>
    /\ IsPrefix(out, <<StrV("init"), StrV("made"), NumV(input), StrV("end")>>)
    /\ status \in {"done", "error", "exited", "panic"} =>
         /\ status = "done"
         /\ out = <<StrV("init"), StrV("made"), NumV(input), StrV("end")>>

\* C15: a field written through one variable is read back through every
\* variable holding the same instance and is absent from another instance of
\* the class: ProgField prints the input twice (same.val, a.val) and then
\* fails on b.val with UndefinedProperty.
C15_FieldWritesPersist ==
  P = ProgField =>
    /\ IsPrefix(out, <<NumV(input), NumV(input)>>)
    /\ status \in {"done", "error", "exited", "panic"} =>
         /\ status = "error" /\ res.err = "UndefinedProperty"
         /\ out = <<NumV(input), NumV(input)>>

\* The class declaration around node n.
RECURSIVE EnclosingClass(_)
EnclosingClass(n) == IF P[n].k = "Class" THEN n ELSE EnclosingClass(ParentOf(n))

\* C16: in a method of a class with a superclass, super.m is the method m of
\* the superclass's declaration, also when the subclass declares an m of its
\* own, bound to the instance this denotes in the current method (the nearest
\* this on the scope chain); ProgSuper, where B overrides greet and calls
\* super.greet(x), prints "A" and the argument from A's greet, then "B" from
\* the rest of B's greet, then "end".
C16_SuperFindsSuperclassMethod ==
  /\ [][(super_expr /\ depth[Top.node] # None) =>
          LET sub == EnclosingClass(Top.node)
              m == res'.val.n
              up == CHOOSE k \in 0..Len(env.nodes) :
                      /\ "this" \in DOMAIN At(env, Walk(env, env.curr_node, k)).values
                      /\ \A j \in 0..(k - 1) :
                           "this" \notin DOMAIN At(env, Walk(env, env.curr_node, j)).values
              this == At(env, Walk(env, env.curr_node, up)).values["this"]
          IN /\ res'.kind = "Val" /\ res'.val.t = "User"
             /\ P[m].k = "Function" /\ P[m].name = Nod.name
             /\ ParentOf(m) # sub
             /\ P[ParentOf(m)].k = "Class"
             /\ P[ParentOf(m)].name = P[P[sub].a].name
             /\ this.t = "Instance" /\ this.n = sub
             /\ Len(env'.nodes) = Len(env.nodes) + 1
             /\ env'.curr_node = env.curr_node
             /\ res'.val.c = Len(env.nodes)
             /\ At(env', res'.val.c).values = Insert(EmptyMap, "this", this)]_vars
  /\ [](P = ProgSuper =>
          /\ IsPrefix(out, <<StrV("A"), NumV(input), StrV("B"), StrV("end")>>)
          /\ status \in {"done", "error", "exited", "panic"} =>
               /\ status = "done"
               /\ out = <<StrV("A"), NumV(input), StrV("B"), StrV("end")>>)

\* A's greet, reached through super.greet(x) from B's greet, has printed "A"
\* and the argument; it runs in a scope chain whose this is the instance of B,
\* and B's greet is still to print "B".
C16_Witness ==
  /\ P = ProgSuper
  /\ status = "running" /\ stack # <<>>
  /\ out = <<StrV("A"), NumV(input)>>
  /\ \E i \in DOMAIN stack : P[stack[i].node].k = "Call" /\ P[P[stack[i].node].a].k = "Super"
  /\ P[EnclosingClass(Top.node)].name = "A"
  /\ \E k \in 0..Len(env.nodes) :
       LET id == Walk(env, env.curr_node, k)
       IN /\ id # None
          /\ "this" \in DOMAIN At(env, id).values
          /\ P[At(env, id).values["this"].n].name = "B"

\* C17: a declaration changes the bindings of the current scope only, and an
\* assignment with depth d those of the scope d links up only; so in
\* ProgBlockScope, where a block declares a and only and assigns a, the global
\* a is "global" throughout, only is never a global, and the program prints
\* "changed" inside the block, "global" and the input after it, and fails on
\* reading only.
C17_BlockWritesStayInBlock ==
  /\ [][((var_statement /\ Top.pc > 0) \/ fun_statement) =>
          /\ Len(env'.nodes) = Len(env.nodes)
          /\ env'.curr_node = env.curr_node
          /\ \A i \in Ids : i # env.curr_node => At(env', i) = At(env, i)]_vars
  /\ [][(assign_expr /\ Top.pc > 0 /\ depth[Top.node] # None) =>
          /\ Len(env'.nodes) = Len(env.nodes)
          /\ env'.curr_node = env.curr_node
          /\ \A i \in Ids :
               i # Walk(env, env.curr_node, depth[Top.node]) => At(env', i) = At(env, i)]_vars
  /\ [](P = ProgBlockScope =>
          /\ "only" \notin DOMAIN At(env, 0).values
          /\ "a" \in DOMAIN At(env, 0).values => At(env, 0).values["a"] = StrV("global")
          /\ IsPrefix(out, <<StrV("changed"), StrV("global"), NumV(input)>>)
          /\ status \in {"done", "error", "exited", "panic"} =>
               /\ status = "error" /\ res.err = "UndefinedVariable"
               /\ out = <<StrV("changed"), StrV("global"), NumV(input)>>)

\* The block has finished: its scope holds the assigned a and only, the
\* current scope is the global one again, and the global a was read after it.
C17_Witness ==
  /\ P = ProgBlockScope
  /\ status = "running"
  /\ env.curr_node = 0 /\ Len(env.nodes) = 2
  /\ At(env, 1).values["a"] = StrV("changed")
  /\ At(env, 1).values["only"] = NumV(input)
  /\ At(env, 0).values["a"] = StrV("global")
  /\ At(env, 0).values["n"] = NumV(input)
  /\ out = <<StrV("changed"), StrV("global")>>

\* C18: the resolver rejects with TopLevelReturn exactly the returns that no
\* function or method declaration encloses: a program with such a return is
\* rejected, a TopLevelReturn is reported at the line of such a return, and
\* the programs with a top-level return in a block, an if branch, a while body
\* and after a function declaration are rejected with it, while the one whose
\* returns are all inside functions and methods is accepted.
C18_TopLevelReturnRejected ==
  status # "parsed" =>
    LET enclosed(n) == \E i \in DOMAIN ScopesOf(n) : P[ScopesOf(n)[i]].k = "Function"
        top == {n \in DOMAIN P : P[n].k = "Return" /\ ~enclosed(n)}
    IN /\ top # {} => status = "rejected"
       /\ (status = "rejected" /\ res.err = "TopLevelReturn") =>
            \E n \in top : P[n].line = res.line
       /\ (\E i \in 1..4 : P = ResolverPrograms[i]) =>
            /\ top # {}
            /\ status = "rejected" /\ res.err = "TopLevelReturn"
       /\ P = ResolverPrograms[5] =>
            /\ \E n \in DOMAIN P : P[n].k = "Return"
            /\ status # "rejected"

\* The return after the complete declaration of f is rejected, the return
\* inside f having been accepted.
C18_Witness ==
  /\ P = ResolverPrograms[4]
  /\ status = "rejected"
  /\ res.err = "TopLevelReturn"
  /\ \E n, m \in DOMAIN P :
       /\ P[n].k = "Return" /\ P[m].k = "Return"
       /\ P[m].line < P[n].line
       /\ P[n].line = res.line

\* C19: the resolver rejects with VariableAlreadyDefined a second declaration
\* of a name in one block (also a function body) and a repeated parameter
\* name: a program with one is rejected, a reported VariableAlreadyDefined is
\* at the line of one, and the programs with two vars in a block, two vars in
\* a function body, two functions in a block and a duplicated parameter are
\* rejected with it; the program that redeclares a global and shadows names
\* in nested scopes is accepted.
C19_RedeclarationRejected ==
  status # "parsed" =>
    LET declares(n) == P[n].k \in {"Var", "Function", "Class"}
        again == {n \in DOMAIN P :
                    /\ declares(n)
                    /\ P[ParentOf(n)].k = "Block"
                    /\ \E m \in Range(P[ParentOf(n)].kids) :
                         m < n /\ declares(m) /\ P[m].name = P[n].name}
        repeated == {n \in DOMAIN P :
                       /\ P[n].k = "Function"
                       /\ \E i, j \in DOMAIN P[n].params :
                            i < j /\ P[n].params[i] = P[n].params[j]}
        lines == {P[n].line : n \in again \cup repeated}
    IN /\ lines # {} => status = "rejected"
       /\ (status = "rejected" /\ res.err = "VariableAlreadyDefined") => res.line \in lines
       /\ (\E i \in 6..9 : P = ResolverPrograms[i]) =>
            /\ lines # {}
            /\ status = "rejected" /\ res.err = "VariableAlreadyDefined"
       /\ P = ResolverPrograms[10] =>
            /\ \E n, m \in Range(P[1].kids) :
                 m < n /\ declares(m) /\ declares(n) /\ P[m].name = P[n].name
            /\ \E n, m \in DOMAIN P :
                 /\ declares(m) /\ declares(n) /\ P[m].name = P[n].name
                 /\ P[ParentOf(n)].k = "Block"
                 /\ ParentOf(n) # ParentOf(m)
                 /\ ParentOf(m) \in Range(ScopesOf(n))
            /\ status # "rejected"

\* fun f(a, a) { } is rejected at the declaration of the second parameter.
C19_Witness ==
  /\ P = ResolverPrograms[9]
  /\ status = "rejected"
  /\ res.err = "VariableAlreadyDefined"
  /\ \E n \in DOMAIN P : P[n].k = "Function" /\ P[n].params = <<"a", "a">> /\ P[n].line = res.line

\* C20: directly inside a method named init, every return written with a
\* value expression is rejected with ReturnInAnInitializer: a program with
\* such a return is rejected with it at the first of them.
C20_InitReturnValueRejected ==
  status # "parsed" =>
    LET method(n) == LET fs == {i \in DOMAIN ScopesOf(n) : P[ScopesOf(n)[i]].k = "Function"}
                     IN IF fs = {} THEN 0
                        ELSE ScopesOf(n)[CHOOSE i \in fs : \A j \in fs : i <= j]
        valued == {n \in DOMAIN P :
                     /\ P[n].k = "Return" /\ P[n].name = "value"
                     /\ method(n) # 0
                     /\ P[method(n)].name = "init"
                     /\ P[ParentOf(method(n))].k = "Class"}
    IN valued # {} =>
         /\ status = "rejected"
         /\ res.err = "ReturnInAnInitializer"
         /\ \E n \in valued : P[n].line = res.line

\* Node m is node n or a part of it.
RECURSIVE Within(_, _)
Within(m, n) == m = n \/ (m # 1 /\ Within(ParentOf(m), n))

\* C21: a variable declaration in a non-global scope whose initializer reads
\* the declared name is rejected with SelfReferencingInitializer, also when an
\* outer scope declares the name: a program with one is rejected, a reported
\* SelfReferencingInitializer is at the line of such a read, and the two
\* programs with one are rejected with it; the same declaration at global
\* scope is accepted by the resolver.
C21_SelfReadRejected ==
  status # "parsed" =>
    LET reads == {m \in DOMAIN P :
                    /\ P[m].k = "VarExpr"
                    /\ \E n \in DOMAIN P :
                         /\ P[n].k = "Var" /\ P[n].name = P[m].name
                         /\ ScopesOf(n)[1] # 1
                         /\ Within(m, P[n].a)}
    IN /\ reads # {} => status = "rejected"
       /\ (status = "rejected" /\ res.err = "SelfReferencingInitializer") =>
            \E m \in reads : P[m].line = res.line
       /\ (\E i \in 15..16 : P = ResolverPrograms[i]) =>
            /\ reads # {}
            /\ status = "rejected" /\ res.err = "SelfReferencingInitializer"
       /\ P = ResolverPrograms[17] =>
            /\ \E n, m \in DOMAIN P :
                 /\ P[n].k = "Var" /\ P[m].k = "VarExpr" /\ P[n].name = P[m].name
                 /\ ScopesOf(n) = <<1>>
                 /\ Within(m, P[n].a)
            /\ status # "rejected"

\* var a = (a + 1); in a block under a global a is rejected at the read of a.
C21_Witness ==
  /\ P = ResolverPrograms[16]
  /\ status = "rejected"
  /\ res.err = "SelfReferencingInitializer"
  /\ \E m \in DOMAIN P :
       /\ P[m].k = "VarExpr" /\ P[m].name = "a" /\ P[m].line = res.line
       /\ P[ParentOf(m)].k = "Binary"

\* C22: a runtime error raised at top level, inside a block or inside a
\* function body ends the run as an error result returned by interpret; the
\* evaluator never terminates the process.
C22_ErrorsReachTheCaller ==
  /\ status # "exited"
  /\ (status \in {"done", "error", "panic"} /\ res.kind = "Err") => status = "error"

\* C28: while a statement at the top level of a function body is about to
\* execute, the current scope is the one the call made for the parameters: it
\* binds every parameter and no scope lies between it and the body.
C28_BodyRunsInParameterScope ==
  (/\ status = "running" /\ stack # <<>>
   /\ res.kind \notin {"Err", "Panic"}
   /\ Top.node # 1 /\ Top.pc = 0
   /\ P[ParentOf(Top.node)].k = "Block"
   /\ P[ParentOf(ParentOf(Top.node))].k = "Function"
   /\ P[ParentOf(ParentOf(Top.node))].a = ParentOf(Top.node)) =>
     LET f == ParentOf(ParentOf(Top.node))
     IN /\ At(env, env.curr_node).origin = f
        /\ Range(P[f].params) \subseteq DOMAIN At(env, env.curr_node).values

\* The Fibonacci numbers.
RECURSIVE Fib(_)
Fib(n) == IF n <= 1 THEN n ELSE Fib(n - 2) + Fib(n - 1)

\* C29: a call of a user function appends one scope to the arena that binds
\* the parameters to the arguments and whose parent is the function's captured
\* scope, and leaves every existing scope as it was; in ProgFib no scope of an
\* invocation changes once it is made, whatever nested invocations do, and
\* fib(input) is the Fibonacci number; in ProgCounter the closures of the two
\* invocations of makeCounter capture different scopes, each with its own i.
C29_InvocationsHaveOwnScopes ==
  /\ [][(call_expr /\ Top.pc = Len(Nod.kids) + 1 /\ res'.kind = "Empty") =>
          LET callee == IF Top.pc = 1 THEN res.val ELSE Top.v
              arguments == IF Top.pc = 1 THEN <<>> ELSE Append(Top.vs, res.val)
              params == P[callee.n].params
              new == env'.nodes[Len(env'.nodes)]
          IN /\ callee.t = "User"
             /\ Len(env'.nodes) = Len(env.nodes) + 1
             /\ SubSeq(env'.nodes, 1, Len(env.nodes)) = env.nodes
             /\ env'.curr_node = Len(env.nodes)
             /\ new.parent = callee.c
             /\ DOMAIN new.values = Range(params)
             /\ \A i \in DOMAIN params : new.values[params[i]] = arguments[i]]_vars
  /\ [][P = ProgFib =>
          \A i \in 2..Len(env.nodes) :
            P[env.nodes[i].origin].k = "Function" => env'.nodes[i] = env.nodes[i]]_vars
  /\ [](P = ProgFib =>
          /\ IsPrefix(out, <<NumV(Fib(input))>>)
          /\ status \in {"done", "error", "exited", "panic"} =>
               status = "done" /\ out = <<NumV(Fib(input))>>)
  /\ [](P = ProgCounter /\ status = "done" =>
          LET counter == At(env, 0).values["counter"]
              other == At(env, 0).values["other"]
          IN /\ counter.c # other.c
             /\ At(env, counter.c).values["i"] = NumV(input)
             /\ At(env, other.c).values["i"] = NumV(1))

\* fib(input - 2) has returned to the invocation fib(input), input at least 2,
\* which still sees its own n while scopes of finished invocations with other
\* values of n are in the arena.
C29_Witness ==
  /\ P = ProgFib /\ input >= 2
  /\ status = "running" /\ stack # <<>>
  /\ Nod.k = "VarExpr" /\ Nod.name = "n" /\ Top.pc = 0
  /\ P[ParentOf(Top.node)].k = "Binary" /\ P[ParentOf(Top.node)].name = "Minus"
  /\ Len(env.nodes) > 4
  /\ GetAt(env, depth[Top.node], "n", 0) = Ok(NumV(input))
  /\ \E i \in DOMAIN env.nodes :
       "n" \in DOMAIN env.nodes[i].values /\ env.nodes[i].values["n"] = NumV(input - 2)

\* C30: a class declaration succeeds in every scope and binds the name to the
\* class in the current scope: no class_statement step yields an error, each
\* leaves the class under its name in the current scope and the other scopes
\* as they were, and ProgLocalClass, which declares a class in a block, prints
\* "declared" and ends normally.
C30_ClassDeclaresInCurrentScope ==
  /\ [][class_statement =>
          /\ res' = Normal
          /\ At(env', env.curr_node).values[Nod.name] = ClassV(Top.node, env.curr_node)
          /\ \A i \in Ids : i # env.curr_node => At(env', i) = At(env, i)]_vars
  /\ [](P = ProgLocalClass =>
          /\ IsPrefix(out, <<StrV("declared")>>)
          /\ status \in {"done", "error", "exited", "panic"} =>
               status = "done" /\ out = <<StrV("declared")>>)

\* C23: after a syntax error the parser goes on: it is never stopped by an
\* error it reported, and having reported one it stands at a statement
\* boundary (the end, just after a semicolon, or just before class, fun, var,
\* for, if, while, print or return), from where the later statements are parsed
\* and later errors reported.
C23_ParserResumesAfterError ==
  /\ parser.state # "exited"
  /\ parser.reported # <<>> =>
       \/ Parser_is_at_end(parser)
       \/ Parser_previous(parser).type = "Semicolon"
       \/ Parser_peek(parser).type \in
            {"Class", "Fun", "Var", "For", "If", "While", "Print", "Return"}

\* C24: a scan error does not stop the scanner, which goes on to the end of
\* the text, and a run in which the scanner reported an error does not end as
\* a successful run.
C24_ScanErrorsFailTheRun ==
  /\ scanner.reported # <<>> => scanner.state \in {"scanning", "scanned"}
  /\ scanner.state = "scanned" => scanner.current >= Len(scanner.source)
  /\ scanner.reported # <<>> => parser.state # "succeeded"

\* C25: the parser accepts a for loop with any combination of clauses: on a
\* text that begins with `for` it reports no error, and the statement it
\* builds is the while loop, inside a block after the initializer when there
\* is one.
C25_ForClausesAccepted ==
  (parser.tokens # <<>> /\ parser.tokens[1].type = "For") =>
    /\ parser.reported = <<>>
    /\ parser.state # "exited"
    /\ parser.statements # <<>> =>
         LET stmt == parser.statements[1]
         IN \/ stmt.k = "While"
            \/ stmt.k = "Block" /\ Len(stmt.kids) = 2 /\ stmt.kids[2].k = "While"

\* C26: an assignment to a property access (obj.name = value) is parsed
\* without an error, and an invalid assignment target is reported without
\* ending the parse.
C26_AssignmentTargets ==
  /\ (/\ Len(parser.tokens) > 4
      /\ [i \in 1..4 |-> parser.tokens[i].type] = <<"Identifier", "Dot", "Identifier", "Equal">>)
       => parser.reported = <<>>
  /\ "InvalidAssignment" \in Range(parser.reported) => parser.state # "exited"

\* C27: scan_tokens ends normally on every source text, an unterminated block
\* comment included, and the tokens it returns hold one EOF, the last token.
C27_ScanTokensTerminates ==
  /\ scanner.state # "panic"
  /\ scanner.state = "scanned" =>
       /\ scanner.tokens # <<>>
       /\ \A i \in DOMAIN scanner.tokens :
            scanner.tokens[i].type = "EOF" <=> i = Len(scanner.tokens)

====
